---- MODULE Spec2Model ----
(***************************************************************************)
(* A model of toyqueue::fix_cap_queue (include/toyqueue.h), of             *)
(* playground::runner (include/playground.h), of the dispatcher / task     *)
(* glue and co_task_with of include/async_tool.h, of sync_stream           *)
(* (include/playground.h) and of the demos of src/playground.cpp that use  *)
(* them (producer/consumer harness, try_await5, try_msg_stream).           *)
(*                                                                         *)
(* Every atomic load and compare-exchange of the queue is one step of the  *)
(* calling thread; the access to the data of a slot goes with the store    *)
(* that releases the slot's flag; memory is sequentially consistent.       *)
(***************************************************************************)
EXTENDS Integers, Naturals, Sequences, FiniteSets, TLC

\* ------------------------------------------------------------------ bounds
Cap == 1            \* constructor argument of fix_cap_queue: cap, ring of cap + 1 slots
NThreads == 3       \* threads that call try_push / try_pop directly
MaxPush == 4        \* try_push calls started in one behaviour
NSubmit == 2        \* threads that launch coroutines awaiting on a runner
MaxUnits == 3       \* units submitted to a runner in one behaviour
MaxFrames == 2      \* coroutine frames created in one behaviour
NumProducer == 2    \* num_producer of toy_queue_test::test_concurrent
NumConsumer == 1    \* num_consumer of toy_queue_test::test_concurrent
Num == 1            \* toy_queue_test::num, pushes of every producer
NTask == 3          \* co_task_with objects nested by wait() in one behaviour
MaxWaits == 2       \* sync_wait calls made on the launched task
MaxChunks == 2      \* messages the server writes to the response stream (try_await5)
NumReader == 1      \* threads that read the stream (try_msg_stream: output_task)
NumWrite == 2       \* write_sync calls of every writer (try_msg_stream: 5)
MaxFail == 1        \* data moves that throw in one behaviour

Threads == 1..NThreads
Slots == 0..Cap
Values == 1..MaxPush
NoValue == 0        \* std::nullopt
PushTrue == 1       \* try_push returned true
PushFalse == 0      \* try_push returned false
PushThrew == 2      \* try_push left by the exception of the data move
NumWriter == 2      \* task1 and task2 of try_msg_stream, the threads that write

VARIABLES
  head,       \* fix_cap_queue::head
  tail,       \* fix_cap_queue::tail
  flag,       \* location::flag of every slot
  data,       \* location::data of every slot (NoValue = nullopt)
  pc,         \* position of every thread
  cur,        \* cur_head / cur_tail of the call in progress
  nxt,        \* next_tail of the try_push in progress
  arg,        \* the value parameter of the try_push in progress
  ret,        \* value returned by the last try_push / try_pop
  role,       \* what a thread of the queue clients does
  nextVal,    \* next payload handed to try_push (payloads are distinct)
  semaphore,  \* runner::semaphore (count of available tokens)
  stop_requested, \* runner::stop_source
  owner,      \* position of the thread that owns the runner (~runner)
  kind,       \* F of runner<F>: "to_execute" (to_execute_t) or "function" (cancellable_function)
  site,       \* call site of the worker's try_pop: "run" or "drain"
  task,       \* the unit the worker popped in run() / drain()
  hollow,     \* units whose queued cancellable_function holds no callable
  frame,      \* state of every coroutine frame
  uframe,     \* to_execute_t::h of every unit: the frame it resumes or destroys
  retval,     \* awaitable::retval (value_storage) of the frame's current co_await
  nextFrame,  \* next coroutine frame to create
  aborted,    \* std::terminate was called
  count,      \* counter_controller::count
  stop_signal, \* the std::stop_source of the producer/consumer harness
  iter,       \* per producer: the loop index i of product
  sum,        \* per consumer: the local sum of consume
  eload,      \* per thread: the pointer empty() loaded first, <<which, value>>
  co,         \* per co_task_with: where its coroutine is
  done,       \* per co_task_with: count of the binary_semaphore *done
  promise_next,   \* per co_task_with: promise_type::next (0 = nullptr)
  promise_retval, \* per co_task_with: promise_type::retval
  opretval,   \* per co_task_with: awaitable::retval of its awaited stream operation
  chunk,      \* per co_task_with: the local its co_await expression was assigned to
  running,    \* per thread: the coroutine that executes on it (0 = none)
  unitq,      \* units handed to the executor and not yet invoked
  mpc,        \* position of the thread that creates and launches the task
  thist,      \* history record of the tasks, never read by the code
  rq,         \* per runner of try_await5: the units in its queue
  rsem,       \* per runner of try_await5: runner::semaphore
  rstop,      \* per runner of try_await5: stop_requested()
  rpc,        \* per runner of try_await5: position of its worker thread
  rlive,      \* per runner of try_await5: whether its destructor has not finished
  mutex,      \* sync_stream::mutex: the thread that holds it (0 = free)
  queue,      \* sync_stream::queue
  stoped,     \* stopable_cv::stoped
  waiting,    \* threads blocked in the condition variable
  spc,        \* position of every thread that uses the stream
  buffer,     \* per reader: the message read_sync assigned to data
  nextId,     \* default_id_generator: serial number of the next message
  shist,      \* history record of the stream, never read by the code
  hist        \* history record: what the calls did, never read by the code

qvars == <<head, tail, flag, data>>
lvars == <<pc, cur, nxt, arg, ret>>
rvars == <<semaphore, stop_requested, owner, kind, site, task, hollow,
           frame, uframe, retval, nextFrame, aborted>>
hvars == <<count, stop_signal, iter, sum, eload>>
dvars == <<rq, rsem, rstop, rpc, rlive>>
tvars == <<co, done, promise_next, promise_retval, opretval, chunk, running, unitq, mpc, thist, dvars>>
svars == <<mutex, queue, stoped, waiting, spc, buffer, nextId, shist>>
cvars == <<role, nextVal, rvars, hvars, tvars, svars>>
vars == <<head, tail, flag, data, pc, cur, nxt, arg, ret, role, nextVal,
          semaphore, stop_requested, owner, kind, site, task, hollow,
          frame, uframe, retval, nextFrame, aborted,
          count, stop_signal, iter, sum, eload, hist, tvars, svars>>

\* ------------------------------------------------------------ fix_cap_queue
next_index(index) == IF index = Cap THEN 0 ELSE index + 1

empty == head = tail

InitQueue ==
  /\ head = 0
  /\ tail = 0
  /\ flag = [i \in Slots |-> "empty"]
  /\ data = [i \in Slots |-> NoValue]

InitHist ==
  [ pushCas   |-> 0,      \* successful CAS on tail
    popCas    |-> 0,      \* successful CAS on head
    accepted  |-> {},     \* payloads whose try_push returned true
    pusher    |-> [v \in Values |-> 0],
    popped    |-> <<>>,   \* payloads in the order try_pop returned them
    claims    |-> <<>>,   \* payload owning the slot index at each CAS on head
    slotq     |-> [i \in Slots |-> <<>>],
    wrote     |-> {},     \* payloads stored into a slot
    badState  |-> FALSE,
    log       |-> TRUE,   \* the order of the queue's operations is recorded
    fail      |-> 0,      \* data moves that may still throw (T's move is not nothrow)
    lost      |-> {} ]    \* payloads of the data moves that threw

\* try_push, toyqueue.h:112-113
PushLoadTail(t) ==
  /\ pc[t] = "push_load"
  /\ cur' = [cur EXCEPT ![t] = tail]
  /\ nxt' = [nxt EXCEPT ![t] = next_index(tail)]
  /\ pc' = [pc EXCEPT ![t] = "push_check"]
  /\ UNCHANGED <<qvars, arg, ret, cvars, hist>>

\* a try_push that moves tail before it gives up on a full queue
PushCheckFull_ClaimFirst(t) ==
  /\ pc[t] = "push_check"
  /\ IF nxt[t] # head
       THEN /\ pc' = [pc EXCEPT ![t] = "push_cas"]
            /\ ret' = ret
            /\ tail' = tail
       ELSE /\ pc' = [pc EXCEPT ![t] = "push_ret"]
            /\ ret' = [ret EXCEPT ![t] = PushFalse]
            /\ tail' = nxt[t]
  /\ UNCHANGED <<head, flag, data, cur, nxt, arg, cvars, hist>>

\* try_push that keeps one more slot free than the sentinel
PushCheckFull_OneLess(t) ==
  /\ pc[t] = "push_check"
  /\ IF nxt[t] # head /\ next_index(nxt[t]) # head
       THEN /\ pc' = [pc EXCEPT ![t] = "push_cas"]
            /\ ret' = ret
       ELSE /\ pc' = [pc EXCEPT ![t] = "push_ret"]
            /\ ret' = [ret EXCEPT ![t] = PushFalse]
  /\ UNCHANGED <<qvars, cur, nxt, arg, cvars, hist>>

\* try_push, toyqueue.h:117 left operand and 122-124
PushCheckFull(t) ==
  /\ pc[t] = "push_check"
  /\ IF nxt[t] # head
       THEN /\ pc' = [pc EXCEPT ![t] = "push_cas"]
            /\ ret' = ret
       ELSE /\ pc' = [pc EXCEPT ![t] = "push_ret"]
            /\ ret' = [ret EXCEPT ![t] = PushFalse]
  /\ UNCHANGED <<qvars, cur, nxt, arg, cvars, hist>>

\* try_push, toyqueue.h:118-121: compare_exchange_weak on tail
PushCasTail(t) ==
  /\ pc[t] = "push_cas"
  /\ IF tail = cur[t]
       THEN /\ tail' = nxt[t]
            /\ pc' = [pc EXCEPT ![t] = "push_flag"]
            /\ hist' = IF hist.log
                         THEN [hist EXCEPT !.pushCas = @ + 1,
                                           !.slotq[cur[t]] = Append(@, arg[t])]
                         ELSE hist
            /\ UNCHANGED <<cur, nxt>>
       ELSE /\ cur' = [cur EXCEPT ![t] = tail]
            /\ nxt' = [nxt EXCEPT ![t] = next_index(tail)]
            /\ pc' = [pc EXCEPT ![t] = "push_check"]
            /\ UNCHANGED <<tail, hist>>
  /\ UNCHANGED <<head, flag, data, arg, ret, cvars>>

\* a try_push that marks its slot busy without waiting for the flag empty
PushCasFlag_NoWait(t) ==
  /\ pc[t] = "push_flag"
  /\ flag' = [flag EXCEPT ![cur[t]] = "busy"]
  /\ pc' = [pc EXCEPT ![t] = "push_store"]
  /\ UNCHANGED <<head, tail, data, cur, nxt, arg, ret, cvars, hist>>

\* try_push that takes the slot while another thread holds it busy
PushCasFlag_Steal(t) ==
  /\ pc[t] = "push_flag"
  /\ flag[cur[t]] \in {"empty", "busy"}
  /\ flag' = [flag EXCEPT ![cur[t]] = "busy"]
  /\ pc' = [pc EXCEPT ![t] = "push_store"]
  /\ UNCHANGED <<head, tail, data, cur, nxt, arg, ret, cvars, hist>>

\* try_push, toyqueue.h:127-132: empty -> busy
PushCasFlag(t) ==
  /\ pc[t] = "push_flag"
  /\ flag[cur[t]] = "empty"
  /\ flag' = [flag EXCEPT ![cur[t]] = "busy"]
  /\ pc' = [pc EXCEPT ![t] = "push_store"]
  /\ UNCHANGED <<head, tail, data, cur, nxt, arg, ret, cvars, hist>>

\* try_push, toyqueue.h:134-141: loc.data = std::move(value), then
\* ~flag_guard stores not_empty, return true.  The data of a busy slot is
\* touched by the thread that made it busy only, so the store to data and the
\* release of the flag are one step for every other thread.  When the move
\* throws, ~clear_data_guard resets loc.data, ~flag_guard stores not_empty all
\* the same and the exception leaves try_push.
PushStore(t) ==
  /\ pc[t] = "push_store"
  /\ \/ /\ data' = [data EXCEPT ![cur[t]] = arg[t]]
        /\ hist' = IF hist.log
                     THEN [hist EXCEPT !.wrote = @ \cup {arg[t]},
                                       !.badState = @ \/ data[cur[t]] # NoValue]
                     ELSE hist
        /\ ret' = [ret EXCEPT ![t] = PushTrue]
     \/ /\ hist.fail > 0
        /\ data' = [data EXCEPT ![cur[t]] = NoValue]
        /\ hist' = [hist EXCEPT !.fail = @ - 1, !.lost = @ \cup {arg[t]}]
        /\ ret' = [ret EXCEPT ![t] = PushThrew]
  /\ flag' = [flag EXCEPT ![cur[t]] = "not_empty"]
  /\ pc' = [pc EXCEPT ![t] = "push_ret"]
  /\ UNCHANGED <<head, tail, cur, nxt, arg, cvars>>

\* try_pop, toyqueue.h:77
PopLoadHead(t) ==
  /\ pc[t] = "pop_load"
  /\ cur' = [cur EXCEPT ![t] = head]
  /\ pc' = [pc EXCEPT ![t] = "pop_check"]
  /\ UNCHANGED <<qvars, nxt, arg, ret, cvars, hist>>

\* try_pop, toyqueue.h:81 left operand and 85-87
PopCheckEmpty(t) ==
  /\ pc[t] = "pop_check"
  /\ IF cur[t] # tail
       THEN /\ pc' = [pc EXCEPT ![t] = "pop_cas"]
            /\ ret' = ret
       ELSE /\ pc' = [pc EXCEPT ![t] = "pop_ret"]
            /\ ret' = [ret EXCEPT ![t] = NoValue]
  /\ UNCHANGED <<qvars, cur, nxt, arg, cvars, hist>>

\* try_pop, toyqueue.h:82-84: compare_exchange_weak on head
PopCasHead(t) ==
  /\ pc[t] = "pop_cas"
  /\ IF head = cur[t]
       THEN /\ head' = next_index(cur[t])
            /\ pc' = [pc EXCEPT ![t] = "pop_flag"]
            /\ hist' = IF hist.log
                 THEN [hist EXCEPT
                   !.popCas = @ + 1,
                   !.claims = Append(@, IF hist.slotq[cur[t]] = <<>> THEN NoValue
                                        ELSE Head(hist.slotq[cur[t]])),
                   !.slotq[cur[t]] = IF @ = <<>> THEN @ ELSE Tail(@)]
                 ELSE hist
            /\ cur' = cur
       ELSE /\ cur' = [cur EXCEPT ![t] = head]
            /\ pc' = [pc EXCEPT ![t] = "pop_check"]
            /\ UNCHANGED <<head, hist>>
  /\ UNCHANGED <<tail, flag, data, nxt, arg, ret, cvars>>

\* try_pop that takes the slot without waiting for the flag to be not_empty
PopCasFlag_NoWait(t) ==
  /\ pc[t] = "pop_flag"
  /\ flag[cur[t]] \in {"not_empty", "empty"}
  /\ flag' = [flag EXCEPT ![cur[t]] = "busy"]
  /\ pc' = [pc EXCEPT ![t] = "pop_move"]
  /\ UNCHANGED <<head, tail, data, cur, nxt, arg, ret, cvars, hist>>

\* try_pop, toyqueue.h:90-95: not_empty -> busy
PopCasFlag(t) ==
  /\ pc[t] = "pop_flag"
  /\ flag[cur[t]] = "not_empty"
  /\ flag' = [flag EXCEPT ![cur[t]] = "busy"]
  /\ pc' = [pc EXCEPT ![t] = "pop_move"]
  /\ UNCHANGED <<head, tail, data, cur, nxt, arg, ret, cvars, hist>>

\* try_pop whose clear_data_guard is disabled: the data stays in the slot
PopMove_KeepData(t) ==
  /\ pc[t] = "pop_move"
  /\ ret' = [ret EXCEPT ![t] = data[cur[t]]]
  /\ flag' = [flag EXCEPT ![cur[t]] = "empty"]
  /\ pc' = [pc EXCEPT ![t] = "pop_ret"]
  /\ UNCHANGED <<head, tail, data, cur, nxt, arg, cvars, hist>>

\* try_pop, toyqueue.h:97-100: return std::move(loc.data), ~clear_data_guard
\* resets data, ~flag_guard stores empty.  The data of a busy slot is touched
\* by the thread that made it busy only, so the move and the release of the
\* flag are one step for every other thread.  When the move of a payload
\* throws, the guards do the same and the exception leaves try_pop.
PopMove(t) ==
  /\ pc[t] = "pop_move"
  /\ \/ /\ ret' = [ret EXCEPT ![t] = data[cur[t]]]
        /\ hist' = hist
     \/ /\ hist.fail > 0
        /\ data[cur[t]] # NoValue
        /\ ret' = [ret EXCEPT ![t] = NoValue]
        /\ hist' = [hist EXCEPT !.fail = @ - 1, !.lost = @ \cup {data[cur[t]]}]
  /\ data' = [data EXCEPT ![cur[t]] = NoValue]
  /\ flag' = [flag EXCEPT ![cur[t]] = "empty"]
  /\ pc' = [pc EXCEPT ![t] = "pop_ret"]
  /\ UNCHANGED <<head, tail, cur, nxt, arg, cvars>>

\* one step of a try_push or try_pop call in progress
QueueStep(t) ==
  \/ PushLoadTail(t) \/ PushCheckFull(t) \/ PushCasTail(t)
  \/ PushCasFlag(t) \/ PushStore(t)
  \/ PopLoadHead(t) \/ PopCheckEmpty(t) \/ PopCasHead(t)
  \/ PopCasFlag(t) \/ PopMove(t)

\* --------------------------------------------------------------- value_storage
\* value_storage<T> after construction: e_ptr{nullptr}, value{}
NullPtr == 0        \* std::exception_ptr{nullptr}
NewStorage == [e_ptr |-> NullPtr, value |-> 0]

\* what the stream operation of unit u does when the worker runs it: it
\* returns status::good (1, not the value a fresh value_storage holds), or it
\* throws; every throw creates an exception object of its own, named after u
OpOutcomes(u) == {[kind |-> "value", v |-> 1], [kind |-> "throw", v |-> u]}
NoOutcome == [kind |-> "none", v |-> 0]

\* execute with a catch block that swallows the exception without storing it
execute_swallow(st, outcome) ==
  IF outcome.kind = "throw"
    THEN st
    ELSE [st EXCEPT !.value = outcome.v]

\* value_storage_base::execute, async_tool.h:34-41
execute(st, outcome) ==
  IF outcome.kind = "throw"
    THEN [st EXCEPT !.e_ptr = outcome.v]
    ELSE [st EXCEPT !.value = outcome.v]

\* value_storage_base::get, async_tool.h:20-32
get(st) ==
  IF st.e_ptr # NullPtr
    THEN [kind |-> "throw", v |-> st.e_ptr]
    ELSE [kind |-> "value", v |-> st.value]

\* -------------------------------------------------------------------- runner
Submitters == 1..NSubmit
W == NSubmit + 1            \* the worker thread of the runner (runner::th)
RThreads == 1..(NSubmit + 1)
Units == 1..(MaxUnits + 1)
Frames == 1..(MaxFrames + 1)

\* the variables of the runner when no runner exists
NoRunner ==
  /\ semaphore = 0
  /\ stop_requested = FALSE
  /\ owner = "none"
  /\ kind = "none"
  /\ site = "none"
  /\ task = NoValue
  /\ hollow = {}
  /\ frame = <<>>
  /\ uframe = <<>>
  /\ retval = <<>>
  /\ nextFrame = 1
  /\ aborted = FALSE

\* the variables of the producer/consumer harness when it does not run
NoHarness ==
  /\ count = 0
  /\ stop_signal = FALSE
  /\ iter = <<>>
  /\ sum = <<>>
  /\ eload = <<>>

\* the variables of the coroutine tasks when no task exists
NoTask ==
  /\ co = <<>>
  /\ done = <<>>
  /\ promise_next = <<>>
  /\ promise_retval = <<>>
  /\ opretval = <<>>
  /\ chunk = <<>>
  /\ running = <<>>
  /\ unitq = <<>>
  /\ mpc = "none"
  /\ thist = <<>>
  /\ rq = <<>>
  /\ rsem = <<>>
  /\ rstop = <<>>
  /\ rpc = <<>>
  /\ rlive = <<>>

\* the variables of the sync_stream when no stream exists
NoStream ==
  /\ mutex = 0
  /\ queue = <<>>
  /\ stoped = FALSE
  /\ waiting = {}
  /\ spc = <<>>
  /\ buffer = <<>>
  /\ nextId = 1
  /\ shist = <<>>

\* ------------------------------------------- threads calling the queue directly
RoleSets == {[t \in Threads |-> IF t <= np THEN "producer" ELSE "consumer"] :
               np \in 1..(NThreads - 1)}

Init ==
  /\ InitQueue
  /\ pc = [t \in Threads |-> "idle"]
  /\ cur = [t \in Threads |-> 0]
  /\ nxt = [t \in Threads |-> 0]
  /\ arg = [t \in Threads |-> NoValue]
  /\ ret = [t \in Threads |-> NoValue]
  /\ role \in RoleSets
  /\ nextVal = 1
  /\ NoRunner
  /\ NoHarness
  /\ NoTask
  /\ NoStream
  /\ hist = InitHist

\* a producer thread calls try_push(nextVal)
CallPush(t) ==
  /\ pc[t] = "idle"
  /\ role[t] \in {"producer", "serial"}
  /\ nextVal <= MaxPush
  /\ arg' = [arg EXCEPT ![t] = nextVal]
  /\ nextVal' = nextVal + 1
  /\ hist' = IF hist.log THEN [hist EXCEPT !.pusher[nextVal] = t] ELSE hist
  /\ pc' = [pc EXCEPT ![t] = "push_load"]
  /\ UNCHANGED <<qvars, cur, nxt, ret, role, hvars, rvars, tvars, svars>>

\* the try_push call returns to the thread
ReturnPush(t) ==
  /\ pc[t] = "push_ret"
  /\ hist' = IF hist.log /\ ret[t] = PushTrue THEN [hist EXCEPT !.accepted = @ \cup {arg[t]}] ELSE hist
  /\ pc' = [pc EXCEPT ![t] = "idle"]
  /\ arg' = [arg EXCEPT ![t] = NoValue]
  /\ cur' = [cur EXCEPT ![t] = 0]
  /\ nxt' = [nxt EXCEPT ![t] = 0]
  /\ ret' = [ret EXCEPT ![t] = NoValue]
  /\ UNCHANGED <<qvars, cvars>>

\* a consumer thread calls try_pop()
CallPop(t) ==
  /\ pc[t] = "idle"
  /\ role[t] \in {"consumer", "serial"}
  /\ pc' = [pc EXCEPT ![t] = "pop_load"]
  /\ UNCHANGED <<qvars, cur, nxt, arg, ret, cvars, hist>>

\* the try_pop call returns to the thread
ReturnPop(t) ==
  /\ pc[t] = "pop_ret"
  /\ hist' = IF hist.log /\ ret[t] # NoValue THEN [hist EXCEPT !.popped = Append(@, ret[t])] ELSE hist
  /\ pc' = [pc EXCEPT ![t] = "idle"]
  /\ cur' = [cur EXCEPT ![t] = 0]
  /\ ret' = [ret EXCEPT ![t] = NoValue]
  /\ UNCHANGED <<qvars, nxt, arg, cvars>>

Next ==
  \E t \in Threads :
    \/ CallPush(t) \/ ReturnPush(t) \/ CallPop(t) \/ ReturnPop(t)
    \/ PushLoadTail(t) \/ PushCheckFull(t) \/ PushCasTail(t)
    \/ PushCasFlag(t) \/ PushStore(t)
    \/ PopLoadHead(t) \/ PopCheckEmpty(t) \/ PopCasHead(t)
    \/ PopCasFlag(t) \/ PopMove(t)

Spec == Init /\ [][Next]_vars

\* the same calls with producers and consumers in equal numbers (one consumer
\* more when NThreads is odd) and without the history of the order of the calls
InitHandshake ==
  /\ InitQueue
  /\ pc = [t \in Threads |-> "idle"]
  /\ cur = [t \in Threads |-> 0]
  /\ nxt = [t \in Threads |-> 0]
  /\ arg = [t \in Threads |-> NoValue]
  /\ ret = [t \in Threads |-> NoValue]
  /\ role = [t \in Threads |-> IF t <= (NThreads + 1) \div 2 THEN "producer" ELSE "consumer"]
  /\ nextVal = 1
  /\ NoRunner
  /\ NoHarness
  /\ NoTask
  /\ NoStream
  /\ hist = [InitHist EXCEPT !.log = FALSE]

SpecHandshake == InitHandshake /\ [][Next]_vars

\* one step of a call of thread t, its return included; whether and when a
\* thread makes its next call is its own choice
ClientStep(t) ==
  /\ QueueStep(t) \/ ReturnPush(t) \/ ReturnPop(t)
  /\ \A s \in Threads \ {t} : pc'[s] = pc[s]

\* the same threads, each scheduled eventually while it can take a step
\* (every step of a call moves the position of its thread)
SpecHandshakeLive == SpecHandshake /\ \A t \in Threads : WF_pc(ClientStep(t))

\* the threads of try_toy_queue over a payload type whose move can throw
\* (try_push and try_pop are noexcept only for a nothrow-movable T)
InitMove ==
  /\ InitQueue
  /\ pc = [t \in Threads |-> "idle"]
  /\ cur = [t \in Threads |-> 0]
  /\ nxt = [t \in Threads |-> 0]
  /\ arg = [t \in Threads |-> NoValue]
  /\ ret = [t \in Threads |-> NoValue]
  /\ role = [t \in Threads |-> IF t <= (NThreads + 1) \div 2 THEN "producer" ELSE "consumer"]
  /\ nextVal = 1
  /\ NoRunner
  /\ NoHarness
  /\ NoTask
  /\ NoStream
  /\ hist = [InitHist EXCEPT !.fail = MaxFail]

SpecMove == InitMove /\ [][Next]_vars

\* one thread makes all the calls, one after the other (toy_queue_test::
\* product_serial / consume_serial, playground.cpp:492-520)
InitSerial ==
  /\ InitQueue
  /\ pc = [t \in Threads |-> "idle"]
  /\ cur = [t \in Threads |-> 0]
  /\ nxt = [t \in Threads |-> 0]
  /\ arg = [t \in Threads |-> NoValue]
  /\ ret = [t \in Threads |-> NoValue]
  /\ role = [t \in Threads |-> IF t = 1 THEN "serial" ELSE "none"]
  /\ nextVal = 1
  /\ NoRunner
  /\ NoHarness
  /\ NoTask
  /\ NoStream
  /\ hist = InitHist

SpecSerial == InitSerial /\ [][Next]_vars

\* ----------------------------------------------- runner and awaiting coroutines
\* runner::runner, playground.h:679, with the kind of unit it is instantiated for
InitRunnerWith(track) ==
  /\ InitQueue
  /\ pc = [t \in RThreads |-> IF t = W THEN "w_acquire" ELSE "idle"]
  /\ cur = [t \in RThreads |-> 0]
  /\ nxt = [t \in RThreads |-> 0]
  /\ arg = [t \in RThreads |-> NoValue]
  /\ ret = [t \in RThreads |-> NoValue]
  /\ role = <<>>
  /\ nextVal = 1
  /\ semaphore = 0
  /\ stop_requested = FALSE
  /\ owner = "live"
  /\ kind \in {"to_execute", "function"}
  /\ site = "none"
  /\ task = NoValue
  /\ hollow = {}
  /\ frame = [f \in Frames |-> "none"]
  /\ uframe = [u \in Units |-> 0]
  /\ retval = [f \in Frames |-> NewStorage]
  /\ nextFrame = 1
  /\ aborted = FALSE
  /\ NoHarness
  /\ NoTask
  /\ NoStream
  /\ hist = [ InitHist EXCEPT !.pusher = <<>>, !.log = FALSE ] @@
            [ called     |-> [u \in Units |-> 0],   \* operator() invocations of the unit
              cancelled  |-> [u \in Units |-> 0],   \* cancel() invocations of the unit
              resumed    |-> [u \in Units |-> 0],   \* h.resume() applied for the unit
              destroyed  |-> [u \in Units |-> 0],   \* h.destroy() applied for the unit
              deadUse    |-> FALSE,                 \* resume / destroy of a frame that is not suspended
              pending    |-> {},                    \* units published in the queue when stop was requested,
                                                    \* until they are invoked or cancelled
              quietStop  |-> FALSE,                 \* when stop was requested no submit was in progress and no
                                                    \* unit had been invoked, and no unit was created since
              outcome    |-> NoOutcome,   \* what the operation of the unit invoked last did
              observed   |-> NoOutcome,   \* what await_resume gave the coroutine of that unit
              track      |-> track,       \* whether ahead is kept
              ahead      |-> [u \in Units |-> {}] ]  \* units whose submit had returned when the
                                                     \* submit of u started, until they are invoked or cancelled

InitRunner == InitRunnerWith(FALSE)

\* units and frames created in one behaviour: one more of each in the
\* behaviours that keep the history of the order of the submits
UnitBudget == IF hist.track THEN MaxUnits + 1 ELSE MaxUnits
FrameBudget == IF hist.track THEN MaxFrames + 1 ELSE MaxFrames

\* history: the submit of unit u starts (runner::operator() is entered)
SubmitStarts(h, u) ==
  IF h.track
    THEN [h EXCEPT !.ahead[u] = {v \in 1..(u - 1) : /\ \A t \in RThreads : arg[t] # v
                                                     /\ h.called[v] + h.cancelled[v] = 0}]
    ELSE h

\* history: the worker invokes or cancels unit u
Settles(h, u) ==
  IF h.track
    THEN [h EXCEPT !.ahead = [v \in Units |-> h.ahead[v] \ {u}]]
    ELSE h

\* std::terminate (an exception left the worker's thread function, or a dead
\* coroutine frame was used): the process ends, no thread takes another step
Terminate ==
  /\ aborted' = TRUE
  /\ pc' = [t \in RThreads |-> "terminated"]
  /\ owner' = "terminated"

\* units published in a slot of the queue
InQueue == {data[i] : i \in {j \in Slots : flag[j] = "not_empty"}}

\* a co_await whose await_suspend runs the stream operation itself, on the
\* awaiting thread, and then hands the unit to the runner
Launch_Inline(t) ==
  /\ t \in Submitters
  /\ pc[t] = "idle"
  /\ \A s \in Submitters : s < t => pc[s] # "idle"
  /\ owner # "joined"
  /\ nextFrame <= FrameBudget
  /\ nextVal <= UnitBudget
  /\ frame' = [frame EXCEPT ![nextFrame] = "suspended"]
  /\ retval' = [retval EXCEPT ![nextFrame] = NewStorage]
  /\ uframe' = [uframe EXCEPT ![nextVal] = nextFrame]
  /\ nextFrame' = nextFrame + 1
  /\ nextVal' = nextVal + 1
  /\ arg' = [arg EXCEPT ![t] = nextVal]
  /\ pc' = [pc EXCEPT ![t] = "push_load"]
  /\ hist' = SubmitStarts([hist EXCEPT !.quietStop = FALSE, !.called[nextVal] = 1], nextVal)
  /\ UNCHANGED <<qvars, cur, nxt, ret, role, hvars, tvars, svars, semaphore, stop_requested, owner, kind,
                 site, task, hollow, aborted>>

\* a thread creates a coroutine and launch()es it; the body runs to its first
\* co_await on a dispatcher / execute_by awaitable, whose await_suspend enters
\* runner::operator() with the unit F f{task} and its first try_push
\* (async_tool.h:229-231, 401-403, 308-316; playground.h:686-687).
\* Idle threads are interchangeable: the first of them is the one that launches.
Launch(t) ==
  /\ t \in Submitters
  /\ pc[t] = "idle"
  /\ \A s \in Submitters : s < t => pc[s] # "idle"
  /\ owner # "joined"
  /\ nextFrame <= FrameBudget
  /\ nextVal <= UnitBudget
  /\ frame' = [frame EXCEPT ![nextFrame] = "suspended"]
  /\ retval' = [retval EXCEPT ![nextFrame] = NewStorage]
  /\ uframe' = [uframe EXCEPT ![nextVal] = nextFrame]
  /\ nextFrame' = nextFrame + 1
  /\ nextVal' = nextVal + 1
  /\ arg' = [arg EXCEPT ![t] = nextVal]
  /\ pc' = [pc EXCEPT ![t] = "push_load"]
  /\ hist' = SubmitStarts([hist EXCEPT !.quietStop = FALSE], nextVal)
  /\ UNCHANGED <<qvars, cur, nxt, ret, role, hvars, tvars, svars, semaphore, stop_requested, owner, kind,
                 site, task, hollow, aborted>>

\* runner::operator(), playground.h:688-692: try_push returned.  On true:
\* semaphore.release() and return.  On false: yield and try_push(std::move(f))
\* again; f has been moved into the by-value parameter of the failed call and
\* that parameter is gone: a moved-from std::function is left in an
\* unspecified state (empty, or still holding the callable), and the unit built
\* from it for the next call is hollow when it is empty; to_execute_t is a
\* struct of pointers whose move is a copy.
SubmitPushed(t) ==
  /\ pc[t] = "push_ret"
  /\ IF ret[t] = PushTrue
       THEN /\ semaphore' = semaphore + 1
            /\ arg' = [arg EXCEPT ![t] = NoValue]
            /\ pc' = [pc EXCEPT ![t] = IF t = W THEN "w_acquire" ELSE "idle"]
            /\ UNCHANGED hollow
       ELSE /\ pc' = [pc EXCEPT ![t] = "push_load"]
            /\ \E e \in (IF kind = "function" THEN {TRUE, arg[t] \in hollow} ELSE {FALSE}) :
                 hollow' = IF e THEN hollow \cup {arg[t]} ELSE hollow
            /\ UNCHANGED <<semaphore, arg>>
  /\ cur' = [cur EXCEPT ![t] = 0]
  /\ nxt' = [nxt EXCEPT ![t] = 0]
  /\ ret' = [ret EXCEPT ![t] = NoValue]
  /\ UNCHANGED <<qvars, role, hvars, tvars, svars, nextVal, stop_requested, owner, kind,
                 site, task, frame, uframe, retval, nextFrame, aborted, hist>>

\* runner::run, playground.h:666: semaphore.acquire()
WorkerAcquire ==
  /\ pc[W] = "w_acquire"
  /\ semaphore > 0
  /\ semaphore' = semaphore - 1
  /\ pc' = [pc EXCEPT ![W] = "w_check"]
  /\ UNCHANGED <<qvars, cur, nxt, arg, ret, role, hvars, tvars, svars, nextVal, stop_requested, owner, kind,
                 site, task, hollow, frame, uframe, retval, nextFrame,
                 aborted, hist>>

\* runner::run, playground.h:667-671: stop_requested() ? drain() : queue.try_pop()
WorkerCheckStop ==
  /\ pc[W] = "w_check"
  /\ IF stop_requested
       THEN /\ pc' = [pc EXCEPT ![W] = "d_empty"]
            /\ UNCHANGED site
       ELSE /\ pc' = [pc EXCEPT ![W] = "pop_load"]
            /\ site' = "run"
  /\ UNCHANGED <<qvars, cur, nxt, arg, ret, role, hvars, tvars, svars, nextVal, semaphore, stop_requested,
                 owner, kind, task, hollow, frame, uframe, retval, nextFrame,
                 aborted, hist>>

\* runner::run, playground.h:671-672: try_pop returned, task.has_value()
WorkerRunPopped ==
  /\ pc[W] = "pop_ret"
  /\ site = "run"
  /\ IF ret[W] # NoValue
       THEN /\ task' = ret[W]
            /\ pc' = [pc EXCEPT ![W] = "w_call"]
       ELSE /\ task' = NoValue
            /\ pc' = [pc EXCEPT ![W] = "w_acquire"]
  /\ cur' = [cur EXCEPT ![W] = 0]
  /\ ret' = [ret EXCEPT ![W] = NoValue]
  /\ site' = "none"
  /\ UNCHANGED <<qvars, nxt, arg, role, hvars, tvars, svars, nextVal, semaphore, stop_requested, owner, kind,
                 hollow, frame, uframe, retval, nextFrame, aborted, hist>>

\* a unit call that resumes the coroutine before the operation's result is in
\* the value_storage
WorkerCall_ResumeFirst ==
  /\ pc[W] = "w_call"
  /\ IF task \in hollow
       THEN /\ Terminate
            /\ UNCHANGED <<retval, hist>>
       ELSE /\ UNCHANGED <<aborted, owner>>
            /\ pc' = [pc EXCEPT ![W] = "w_resume"]
            /\ retval' = retval
            /\ IF kind = "to_execute"
                 THEN \E o \in OpOutcomes(task) :
                        hist' = Settles([hist EXCEPT !.called[task] = @ + 1,
                                                     !.pending = @ \ {task},
                                                     !.outcome = o,
                                                     !.observed = NoOutcome], task)
                 ELSE hist' = Settles([hist EXCEPT !.called[task] = @ + 1,
                                                   !.pending = @ \ {task}], task)
  /\ UNCHANGED <<qvars, cur, nxt, arg, ret, role, hvars, tvars, svars, nextVal, semaphore, stop_requested,
                 kind, site, task, hollow, frame, uframe, nextFrame>>

\* runner::run, playground.h:673: task.value()().  to_execute_t::operator()
\* first runs retval->execute(op) (async_tool.h:201); a cancellable_function
\* calls its std::function, which throws bad_function_call out of the thread
\* when it is empty.
WorkerCall ==
  /\ pc[W] = "w_call"
  /\ IF task \in hollow
       THEN /\ Terminate
            /\ UNCHANGED <<retval, hist>>
       ELSE /\ UNCHANGED <<aborted, owner>>
            /\ pc' = [pc EXCEPT ![W] = "w_resume"]
            /\ IF kind = "to_execute"
                 THEN \E o \in OpOutcomes(task) :
                        /\ retval' = [retval EXCEPT ![uframe[task]] = execute(@, o)]
                        /\ hist' = Settles([hist EXCEPT !.called[task] = @ + 1,
                                                        !.pending = @ \ {task},
                                                        !.outcome = o,
                                                        !.observed = NoOutcome], task)
                 ELSE /\ retval' = retval
                      /\ hist' = Settles([hist EXCEPT !.called[task] = @ + 1,
                                                      !.pending = @ \ {task}], task)
  /\ UNCHANGED <<qvars, cur, nxt, arg, ret, role, hvars, tvars, svars, nextVal, semaphore, stop_requested,
                 kind, site, task, hollow, frame, uframe, nextFrame>>

\* what await_resume hands to the coroutine: awaitable::await_resume
\* (async_tool.h:233-235) returns retval.get(); execute_by_awaitable's is void
AwaitResume(f) == IF kind = "to_execute" THEN get(retval[f]) ELSE [kind |-> "value", v |-> 0]

\* a unit call that resumes the coroutine and then destroys the handle it holds
WorkerResume_ThenDestroy ==
  /\ pc[W] = "w_resume"
  /\ LET f == uframe[task]
         obs == AwaitResume(f)
         seen == [hist EXCEPT !.resumed[task] = @ + 1, !.observed = obs,
                              !.destroyed[task] = @ + 1]
     IN IF frame[f] # "suspended"
          THEN /\ Terminate
               /\ hist' = [hist EXCEPT !.deadUse = TRUE, !.resumed[task] = @ + 1]
               /\ UNCHANGED <<arg, frame, uframe, retval, nextVal, task>>
          ELSE /\ UNCHANGED <<aborted, owner>>
               /\ \/ /\ frame' = [frame EXCEPT ![f] = "done"]
                     /\ retval' = [retval EXCEPT ![f] = NewStorage]
                     /\ pc' = [pc EXCEPT ![W] = "w_acquire"]
                     /\ task' = NoValue
                     /\ hist' = seen
                     /\ UNCHANGED <<arg, uframe, nextVal>>
                  \/ /\ obs.kind = "value"
                     /\ nextVal <= UnitBudget
                     /\ frame' = frame
                     /\ retval' = [retval EXCEPT ![f] = NewStorage]
                     /\ uframe' = [uframe EXCEPT ![nextVal] = f]
                     /\ nextVal' = nextVal + 1
                     /\ arg' = [arg EXCEPT ![W] = nextVal]
                     /\ task' = NoValue
                     /\ pc' = [pc EXCEPT ![W] = "push_load"]
                     /\ hist' = [seen EXCEPT !.quietStop = FALSE]
  /\ UNCHANGED <<qvars, cur, nxt, ret, role, hvars, tvars, svars, semaphore, stop_requested, kind,
                 site, hollow, nextFrame>>

\* to_execute_t::operator() / execute_by's call, async_tool.h:202, 402:
\* h.resume().  The coroutine runs await_resume on the worker thread and then
\* its body up to the next co_await (a new unit, submitted from this thread)
\* or to its end (co_return, or an exception swallowed by
\* promise_type::unhandled_exception, async_tool.h:305); with no continuation
\* registered the frame is destroyed at the final suspend point.  The awaitable
\* and its value_storage end with the co_await expression.
WorkerResume ==
  /\ pc[W] = "w_resume"
  /\ LET f == uframe[task]
         obs == AwaitResume(f)
         seen == [hist EXCEPT !.resumed[task] = @ + 1, !.observed = obs]
     IN IF frame[f] # "suspended"
          THEN /\ Terminate
               /\ hist' = [hist EXCEPT !.deadUse = TRUE, !.resumed[task] = @ + 1]
               /\ UNCHANGED <<arg, frame, uframe, retval, nextVal, task>>
          ELSE /\ UNCHANGED <<aborted, owner>>
               /\ \/ /\ frame' = [frame EXCEPT ![f] = "done"]
                     /\ retval' = [retval EXCEPT ![f] = NewStorage]
                     /\ pc' = [pc EXCEPT ![W] = "w_acquire"]
                     /\ task' = NoValue
                     /\ hist' = seen
                     /\ UNCHANGED <<arg, uframe, nextVal>>
                  \/ /\ obs.kind = "value"
                     /\ nextVal <= UnitBudget
                     /\ frame' = frame
                     /\ retval' = [retval EXCEPT ![f] = NewStorage]
                     /\ uframe' = [uframe EXCEPT ![nextVal] = f]
                     /\ nextVal' = nextVal + 1
                     /\ arg' = [arg EXCEPT ![W] = nextVal]
                     /\ task' = NoValue
                     /\ pc' = [pc EXCEPT ![W] = "push_load"]
                     /\ hist' = SubmitStarts([seen EXCEPT !.quietStop = FALSE], nextVal)
  /\ UNCHANGED <<qvars, cur, nxt, ret, role, hvars, tvars, svars, semaphore, stop_requested, kind,
                 site, hollow, nextFrame>>

\* runner::drain, playground.h:653-654: while (!queue.empty()) queue.try_pop().
\* empty() loads head and tail; head is written by this thread only.
WorkerDrainEmpty ==
  /\ pc[W] = "d_empty"
  /\ IF empty
       THEN /\ pc' = [pc EXCEPT ![W] = "w_exit"]
            /\ UNCHANGED site
       ELSE /\ pc' = [pc EXCEPT ![W] = "pop_load"]
            /\ site' = "drain"
  /\ UNCHANGED <<qvars, cur, nxt, arg, ret, role, hvars, tvars, svars, nextVal, semaphore, stop_requested,
                 owner, kind, task, hollow, frame, uframe, retval, nextFrame,
                 aborted, hist>>

\* runner::drain, playground.h:654-655: try_pop returned, task.has_value()
WorkerDrainPopped ==
  /\ pc[W] = "pop_ret"
  /\ site = "drain"
  /\ IF ret[W] # NoValue
       THEN /\ task' = ret[W]
            /\ pc' = [pc EXCEPT ![W] = "d_cancel"]
       ELSE /\ task' = NoValue
            /\ pc' = [pc EXCEPT ![W] = "d_empty"]
  /\ cur' = [cur EXCEPT ![W] = 0]
  /\ ret' = [ret EXCEPT ![W] = NoValue]
  /\ site' = "none"
  /\ UNCHANGED <<qvars, nxt, arg, role, hvars, tvars, svars, nextVal, semaphore, stop_requested, owner, kind,
                 hollow, frame, uframe, retval, nextFrame, aborted, hist>>

\* a drain that cancels the unit and then also invokes it
WorkerCancel_ThenCall ==
  /\ pc[W] = "d_cancel"
  /\ LET f == uframe[task]
     IN IF task \in hollow
          THEN /\ Terminate
               /\ UNCHANGED <<frame, hist, task>>
          ELSE IF frame[f] # "suspended"
            THEN /\ Terminate
                 /\ hist' = [hist EXCEPT !.deadUse = TRUE, !.cancelled[task] = @ + 1, !.pending = @ \ {task},
                                         !.destroyed[task] = @ + 1]
                 /\ UNCHANGED <<frame, task>>
            ELSE /\ UNCHANGED <<aborted, owner>>
                 /\ frame' = [frame EXCEPT ![f] = "destroyed"]
                 /\ hist' = [hist EXCEPT !.cancelled[task] = @ + 1, !.pending = @ \ {task},
                                         !.destroyed[task] = @ + 1]
                 /\ task' = task
                 /\ pc' = [pc EXCEPT ![W] = "w_call"]
  /\ UNCHANGED <<qvars, cur, nxt, arg, ret, role, hvars, tvars, svars, nextVal, semaphore, stop_requested,
                 kind, site, hollow, uframe, retval, nextFrame>>

\* runner::drain, playground.h:656: task.value().cancel(), that is
\* to_execute_t::cancel (async_tool.h:205-209) or the cancel of execute_by
\* (async_tool.h:402): h.destroy()
WorkerCancel ==
  /\ pc[W] = "d_cancel"
  /\ LET f == uframe[task]
     IN IF task \in hollow
          THEN /\ Terminate
               /\ UNCHANGED <<frame, hist, task>>
          ELSE IF frame[f] # "suspended"
            THEN /\ Terminate
                 /\ hist' = [hist EXCEPT !.deadUse = TRUE, !.cancelled[task] = @ + 1, !.pending = @ \ {task},
                                         !.destroyed[task] = @ + 1]
                 /\ UNCHANGED <<frame, task>>
            ELSE /\ UNCHANGED <<aborted, owner>>
                 /\ frame' = [frame EXCEPT ![f] = "destroyed"]
                 /\ hist' = Settles([hist EXCEPT !.cancelled[task] = @ + 1, !.pending = @ \ {task},
                                                 !.destroyed[task] = @ + 1], task)
                 /\ task' = NoValue
                 /\ pc' = [pc EXCEPT ![W] = "d_empty"]
  /\ UNCHANGED <<qvars, cur, nxt, arg, ret, role, hvars, tvars, svars, nextVal, semaphore, stop_requested,
                 kind, site, hollow, uframe, retval, nextFrame>>

\* runner::~runner -> runner::stop, playground.h:647: stop_source.request_stop()
OwnerStop ==
  /\ owner = "live"
  /\ stop_requested' = TRUE
  /\ owner' = "stop"
  /\ hist' = [hist EXCEPT
       !.pending = InQueue,
       !.quietStop = /\ \A t \in Submitters : pc[t] = "idle"
                     /\ \A u \in Units : hist.called[u] = 0]
  /\ UNCHANGED <<qvars, lvars, role, hvars, tvars, svars, nextVal, semaphore, kind, site, task,
                 hollow, frame, uframe, retval, nextFrame, aborted>>

\* runner::stop, playground.h:648: semaphore.release()
OwnerRelease ==
  /\ owner = "stop"
  /\ semaphore' = semaphore + 1
  /\ owner' = "join"
  /\ UNCHANGED <<qvars, lvars, role, hvars, tvars, svars, nextVal, stop_requested, kind, site, task,
                 hollow, frame, uframe, retval, nextFrame, aborted, hist>>

\* guarded_thread::~guarded_thread, playground.h:100-104: t.join()
OwnerJoin ==
  /\ owner = "join"
  /\ pc[W] = "w_exit"
  /\ owner' = "joined"
  /\ UNCHANGED <<qvars, lvars, role, hvars, tvars, svars, nextVal, semaphore, stop_requested, kind, site,
                 task, hollow, frame, uframe, retval, nextFrame, aborted, hist>>

NextRunner ==
  \/ \E t \in Submitters : Launch(t)
  \/ \E t \in RThreads : SubmitPushed(t)
  \/ \E t \in RThreads :
       \/ PushLoadTail(t) \/ PushCheckFull(t) \/ PushCasTail(t)
       \/ PushCasFlag(t) \/ PushStore(t)
  \/ PopLoadHead(W) \/ PopCheckEmpty(W) \/ PopCasHead(W)
  \/ PopCasFlag(W) \/ PopMove(W)
  \/ WorkerAcquire \/ WorkerCheckStop \/ WorkerRunPopped \/ WorkerCall
  \/ WorkerResume \/ WorkerDrainEmpty \/ WorkerDrainPopped \/ WorkerCancel
  \/ OwnerStop \/ OwnerRelease \/ OwnerJoin

SpecRunner == InitRunner /\ [][NextRunner]_vars

\* the same runner with the history of the order of the submits
InitRunnerOrder == InitRunnerWith(TRUE)

SpecRunnerOrder == InitRunnerOrder /\ [][NextRunner]_vars

\* one step of thread t of the runner's clients or of its worker; launching a
\* coroutine and destroying the runner are choices of the program around it
RunnerStep(t) ==
  /\ \/ SubmitPushed(t)
     \/ PushLoadTail(t) \/ PushCheckFull(t) \/ PushCasTail(t)
     \/ PushCasFlag(t) \/ PushStore(t)
     \/ /\ t = W
        /\ \/ PopLoadHead(W) \/ PopCheckEmpty(W) \/ PopCasHead(W)
           \/ PopCasFlag(W) \/ PopMove(W)
           \/ WorkerAcquire \/ WorkerCheckStop \/ WorkerRunPopped \/ WorkerCall
           \/ WorkerResume \/ WorkerDrainEmpty \/ WorkerDrainPopped \/ WorkerCancel
  /\ \A s \in RThreads \ {t} : pc'[s] \in {pc[s], "terminated"}

\* the runner with every thread that can take a step scheduled eventually
\* (every step of a thread moves its position)
SpecRunnerLive == SpecRunner /\ \A t \in RThreads : WF_pc(RunnerStep(t))

\* ------------------------------------------ producer/consumer stress harness
HThreads == 1..(NumProducer + NumConsumer)
Producers == 1..NumProducer
Consumers == (NumProducer + 1)..(NumProducer + NumConsumer)

\* toy_queue_test::test_concurrent, playground.cpp:545-560: the queue, the
\* stop source, the counter_controller and the threads, none of them running yet
InitHarness ==
  /\ InitQueue
  /\ pc = [t \in HThreads |-> "not_started"]
  /\ cur = [t \in HThreads |-> 0]
  /\ nxt = [t \in HThreads |-> 0]
  /\ arg = [t \in HThreads |-> NoValue]
  /\ ret = [t \in HThreads |-> NoValue]
  /\ role = [t \in HThreads |-> IF t \in Producers THEN "producer" ELSE "consumer"]
  /\ nextVal = 1
  /\ NoRunner
  /\ NoTask
  /\ NoStream
  /\ count = 0
  /\ stop_signal = FALSE
  /\ iter = [t \in Producers |-> 0]
  /\ sum = [t \in Consumers |-> 0]
  /\ eload = [t \in Consumers |-> <<"none", 0>>]
  /\ hist = [ InitHist EXCEPT !.log = FALSE ]

\* toy_queue_test::product, playground.cpp:484: counter_controller::guard
\* constructor, ++count (playground.cpp:358-361, 370-372)
ProducerStart(t) ==
  /\ t \in Producers
  /\ pc[t] = "not_started"
  /\ count' = count + 1
  /\ pc' = [pc EXCEPT ![t] = "p_loop"]
  /\ UNCHANGED <<qvars, cur, nxt, arg, ret, role, nextVal, rvars, tvars, svars, stop_signal, iter,
                 sum, eload, hist>>

\* toy_queue_test::product, playground.cpp:485-486: i < num ? try_push(1) : leave
ProducerLoop(t) ==
  /\ t \in Producers
  /\ pc[t] = "p_loop"
  /\ IF iter[t] < Num
       THEN /\ arg' = [arg EXCEPT ![t] = 1]
            /\ pc' = [pc EXCEPT ![t] = "push_load"]
       ELSE /\ arg' = arg
            /\ pc' = [pc EXCEPT ![t] = "p_dec"]
  /\ UNCHANGED <<qvars, cur, nxt, ret, role, nextVal, rvars, tvars, svars, hvars, hist>>

\* toy_queue_test::product, playground.cpp:486-488: try_push returned;
\* on false yield and call try_push(1) again, on true i++
ProducerPushed(t) ==
  /\ t \in Producers
  /\ pc[t] = "push_ret"
  /\ IF ret[t] = PushTrue
       THEN /\ iter' = [iter EXCEPT ![t] = @ + 1]
            /\ pc' = [pc EXCEPT ![t] = "p_loop"]
            /\ arg' = [arg EXCEPT ![t] = NoValue]
       ELSE /\ iter' = iter
            /\ pc' = [pc EXCEPT ![t] = "push_load"]
            /\ arg' = arg
  /\ cur' = [cur EXCEPT ![t] = 0]
  /\ nxt' = [nxt EXCEPT ![t] = 0]
  /\ ret' = [ret EXCEPT ![t] = NoValue]
  /\ UNCHANGED <<qvars, role, nextVal, rvars, tvars, svars, count, stop_signal, sum, eload, hist>>

\* counter_controller::guard destructor, playground.cpp:362-367, 373-375:
\* if (--count == 0) callback()
ProducerLeave(t) ==
  /\ t \in Producers
  /\ pc[t] = "p_dec"
  /\ count' = count - 1
  /\ pc' = [pc EXCEPT ![t] = IF count - 1 = 0 THEN "p_callback" ELSE "exited"]
  /\ UNCHANGED <<qvars, cur, nxt, arg, ret, role, nextVal, rvars, tvars, svars, stop_signal, iter,
                 sum, eload, hist>>

\* the callback of the counter_controller, playground.cpp:548: stop.request_stop()
ProducerCallback(t) ==
  /\ t \in Producers
  /\ pc[t] = "p_callback"
  /\ stop_signal' = TRUE
  /\ pc' = [pc EXCEPT ![t] = "exited"]
  /\ UNCHANGED <<qvars, cur, nxt, arg, ret, role, nextVal, rvars, tvars, svars, count, iter, sum,
                 eload, hist>>

\* toy_queue_test::consume, playground.cpp:499: size_t sum = 0
ConsumerStart(t) ==
  /\ t \in Consumers
  /\ pc[t] = "not_started"
  /\ sum' = [sum EXCEPT ![t] = 0]
  /\ pc' = [pc EXCEPT ![t] = "c_stop"]
  /\ UNCHANGED <<qvars, cur, nxt, arg, ret, role, nextVal, rvars, tvars, svars, count, stop_signal,
                 iter, eload, hist>>

\* toy_queue_test::consume, playground.cpp:500: !stop.stop_requested() || ...
ConsumerCheckStop(t) ==
  /\ t \in Consumers
  /\ pc[t] = "c_stop"
  /\ pc' = [pc EXCEPT ![t] = IF stop_signal THEN "c_empty" ELSE "pop_load"]
  /\ UNCHANGED <<qvars, cur, nxt, arg, ret, role, nextVal, rvars, tvars, svars, hvars, hist>>

\* fix_cap_queue::empty, toyqueue.h:65: the first of the two relaxed loads;
\* the operands of == are evaluated in an unspecified order
ConsumerEmptyFirst(t) ==
  /\ t \in Consumers
  /\ pc[t] = "c_empty"
  /\ \E w \in {"head", "tail"} :
       eload' = [eload EXCEPT ![t] = <<w, IF w = "head" THEN head ELSE tail>>]
  /\ pc' = [pc EXCEPT ![t] = "c_empty2"]
  /\ UNCHANGED <<qvars, cur, nxt, arg, ret, role, nextVal, rvars, tvars, svars, count, stop_signal,
                 iter, sum, hist>>

\* fix_cap_queue::empty, toyqueue.h:65: the second load and the comparison;
\* toy_queue_test::consume, playground.cpp:500-501, 508: leave the loop when
\* empty() is true, else call try_pop
ConsumerEmptySecond(t) ==
  /\ t \in Consumers
  /\ pc[t] = "c_empty2"
  /\ LET other == IF eload[t][1] = "head" THEN tail ELSE head
     IN pc' = [pc EXCEPT ![t] = IF eload[t][2] = other THEN "exited" ELSE "pop_load"]
  /\ eload' = [eload EXCEPT ![t] = <<"none", 0>>]
  /\ UNCHANGED <<qvars, cur, nxt, arg, ret, role, nextVal, rvars, tvars, svars, count, stop_signal,
                 iter, sum, hist>>

\* toy_queue_test::consume, playground.cpp:501-506: try_pop returned;
\* sum += data.value() or yield
ConsumerPopped(t) ==
  /\ t \in Consumers
  /\ pc[t] = "pop_ret"
  /\ sum' = [sum EXCEPT ![t] = @ + ret[t]]
  /\ pc' = [pc EXCEPT ![t] = "c_stop"]
  /\ cur' = [cur EXCEPT ![t] = 0]
  /\ ret' = [ret EXCEPT ![t] = NoValue]
  /\ UNCHANGED <<qvars, nxt, arg, role, nextVal, rvars, tvars, svars, count, stop_signal, iter,
                 eload, hist>>

NextHarness ==
  \/ \E t \in Producers :
       \/ ProducerStart(t) \/ ProducerLoop(t) \/ ProducerPushed(t)
       \/ ProducerLeave(t) \/ ProducerCallback(t)
       \/ PushLoadTail(t) \/ PushCheckFull(t) \/ PushCasTail(t)
       \/ PushCasFlag(t) \/ PushStore(t)
  \/ \E t \in Consumers :
       \/ ConsumerStart(t) \/ ConsumerCheckStop(t) \/ ConsumerEmptyFirst(t)
       \/ ConsumerEmptySecond(t) \/ ConsumerPopped(t)
       \/ PopLoadHead(t) \/ PopCheckEmpty(t) \/ PopCasHead(t)
       \/ PopCasFlag(t) \/ PopMove(t)

SpecHarness == InitHarness /\ [][NextHarness]_vars

\* ------------------------------------------------------------- co_task_with
\* A thread ("main") creates the task 1 and launches it; the body of a task
\* either creates the task after it and co_awaits its wait() (try_await3) or
\* co_awaits a stream operation handed to the executor (try_await2); the
\* executor's thread ("worker") invokes the units, and cancels them once the
\* scope of main has ended.
Tasks == 1..NTask
TThreads == {"main", "worker"}
ovars == <<qvars, lvars, role, nextVal, rvars, hvars, hist, svars, dvars>>

InitTask ==
  /\ InitQueue
  /\ pc = <<>>
  /\ cur = <<>>
  /\ nxt = <<>>
  /\ arg = <<>>
  /\ ret = <<>>
  /\ role = <<>>
  /\ nextVal = 1
  /\ NoRunner
  /\ NoHarness
  /\ NoStream
  /\ hist = <<>>
  /\ co = [k \in Tasks |-> "none"]
  /\ done = [k \in Tasks |-> 0]
  /\ promise_next = [k \in Tasks |-> 0]
  /\ promise_retval = [k \in Tasks |-> NewStorage]
  /\ opretval = [k \in Tasks |-> NewStorage]
  /\ chunk = [k \in Tasks |-> NoValue]
  /\ running = [th \in TThreads |-> 0]
  /\ unitq = <<>>
  /\ mpc = "create"
  /\ rq = <<>>
  /\ rsem = <<>>
  /\ rstop = <<>>
  /\ rpc = <<>>
  /\ rlive = <<>>
  /\ thist = [ launched   |-> [k \in Tasks |-> FALSE],    \* resumed from its initial suspend point
               ran        |-> [k \in Tasks |-> FALSE],    \* its body has executed a step
               returned   |-> [k \in Tasks |-> NoValue],  \* the value its co_return was given
               resumed    |-> [k \in Tasks |-> 0],        \* times it was resumed as a continuation
               waits      |-> 0,                          \* sync_wait calls made
               terminated |-> FALSE ]                     \* std::terminate was called

\* the coroutine function is called: the frame is created and get_return_object
\* gives the co_task_with; initial_suspend is suspend_always (async_tool.h:292-301)
MainCreate ==
  /\ mpc = "create"
  /\ co' = [co EXCEPT ![1] = "created"]
  /\ mpc' = "launch"
  /\ UNCHANGED <<ovars, done, promise_next, promise_retval, opretval, chunk, running, unitq, thist>>

\* co_task_with::launch, async_tool.h:308-316: co_handle.resume()
MainLaunch ==
  /\ mpc = "launch"
  /\ co' = [co EXCEPT ![1] = "body"]
  /\ running' = [running EXCEPT !["main"] = 1]
  /\ thist' = [thist EXCEPT !.launched[1] = TRUE]
  /\ mpc' = "launched"
  /\ UNCHANGED <<ovars, done, promise_next, promise_retval, opretval, chunk, unitq>>

\* main calls task.sync_wait(), playground.cpp:1083; launch() has returned
MainCallSyncWait ==
  /\ mpc \in {"launched", "waited"}
  /\ running["main"] = 0
  /\ thist.waits < MaxWaits
  /\ mpc' = "sync_wait"
  /\ thist' = [thist EXCEPT !.waits = @ + 1]
  /\ UNCHANGED <<ovars, co, done, promise_next, promise_retval, opretval, chunk, running, unitq>>

\* co_task_with::sync_wait, async_tool.h:322-324: done->acquire() returns
MainSyncWaitReturn ==
  /\ mpc = "sync_wait"
  /\ done[1] > 0
  /\ done' = [done EXCEPT ![1] = @ - 1]
  /\ mpc' = "waited"
  /\ UNCHANGED <<ovars, co, promise_next, promise_retval, opretval, chunk, running, unitq, thist>>

\* the scope of main ends (playground.cpp:1084, 1175): the executor is stopped
MainExit ==
  /\ mpc \in {"launched", "waited"}
  /\ running["main"] = 0
  /\ mpc' = "exit"
  /\ UNCHANGED <<ovars, co, done, promise_next, promise_retval, opretval, chunk, running, unitq, thist>>

\* the body creates the task after it (mini_task, playground.cpp:1098-1100)
\* with initial_suspend returning suspend_never
CreateChild_Eager(th) ==
  LET k == running[th] IN
  /\ k # 0 /\ k < NTask
  /\ co[k] = "body"
  /\ co' = [co EXCEPT ![k] = "wait", ![k + 1] = "body"]
  /\ running' = [running EXCEPT ![th] = k + 1]
  /\ thist' = [thist EXCEPT !.ran[k] = TRUE]
  /\ UNCHANGED <<ovars, done, promise_next, promise_retval, opretval, chunk, unitq, mpc>>

\* the body creates the task after it (mini_task, playground.cpp:1098-1100)
CreateChild(th) ==
  LET k == running[th] IN
  /\ k # 0 /\ k < NTask
  /\ co[k] = "body"
  /\ co' = [co EXCEPT ![k] = "wait", ![k + 1] = "created"]
  /\ thist' = [thist EXCEPT !.ran[k] = TRUE]
  /\ UNCHANGED <<ovars, done, promise_next, promise_retval, opretval, chunk, running, unitq, mpc>>

\* co_await mini_task.wait(), co_task_awaitable::await_suspend,
\* async_tool.h:343-346: hook_next(h), then transfer to task.co_handle
AwaitSuspendWait(th) ==
  LET k == running[th] IN
  /\ k # 0
  /\ co[k] = "wait"
  /\ promise_next' = [promise_next EXCEPT ![k + 1] = k]
  /\ co' = [co EXCEPT ![k] = "awaiting", ![k + 1] = "body"]
  /\ running' = [running EXCEPT ![th] = k + 1]
  /\ thist' = [thist EXCEPT !.launched[k + 1] = TRUE]
  /\ UNCHANGED <<ovars, done, promise_retval, opretval, chunk, unitq, mpc>>

\* co_await of a stream operation, dispatcher::awaitable::await_suspend,
\* async_tool.h:229-231: the unit is handed to the executor, the coroutine
\* stays suspended and resume() returns to its caller
BodyAwaitOp(th) ==
  LET k == running[th] IN
  /\ k # 0
  /\ co[k] = "body"
  /\ co' = [co EXCEPT ![k] = "suspended"]
  /\ opretval' = [opretval EXCEPT ![k] = NewStorage]
  /\ unitq' = Append(unitq, k)
  /\ running' = [running EXCEPT ![th] = 0]
  /\ thist' = [thist EXCEPT !.ran[k] = TRUE]
  /\ UNCHANGED <<ovars, done, promise_next, promise_retval, chunk, mpc>>

\* to_execute_t::operator(), async_tool.h:200-203, on the executor's thread:
\* retval->execute(op), h.resume()
ExecutorCall ==
  /\ mpc # "exit"
  /\ running["worker"] = 0
  /\ unitq # <<>>
  /\ LET k == Head(unitq) IN
       /\ \E outcome \in OpOutcomes(k) :
            opretval' = [opretval EXCEPT ![k] = execute(@, outcome)]
       /\ co' = [co EXCEPT ![k] = "op_resume"]
       /\ running' = [running EXCEPT !["worker"] = k]
  /\ unitq' = Tail(unitq)
  /\ UNCHANGED <<ovars, done, promise_next, promise_retval, chunk, mpc, thist>>

\* to_execute_t::cancel, async_tool.h:205-209, from runner::drain: h.destroy()
ExecutorCancel ==
  /\ mpc = "exit"
  /\ running["worker"] = 0
  /\ unitq # <<>>
  /\ co' = [co EXCEPT ![Head(unitq)] = "cancelled"]
  /\ unitq' = Tail(unitq)
  /\ UNCHANGED <<ovars, done, promise_next, promise_retval, opretval, chunk, running, mpc, thist>>

\* dispatcher::awaitable::await_resume, async_tool.h:233-235: retval.get()
\* gives the value of the co_await expression or rethrows into the body
OpAwaitResume(th) ==
  LET k == running[th]
      r == get(opretval[k]) IN
  /\ k # 0
  /\ co[k] = "op_resume"
  /\ IF r.kind = "throw"
       THEN /\ co' = [co EXCEPT ![k] = "unhandled"]
            /\ UNCHANGED chunk
       ELSE /\ co' = [co EXCEPT ![k] = "co_return"]
            /\ chunk' = [chunk EXCEPT ![k] = r.v]
  /\ UNCHANGED <<ovars, done, promise_next, promise_retval, opretval, running, unitq, mpc, thist>>

\* co_return chunk: return_value_mixin::return_value, async_tool.h:266-267:
\* retval.set(value)
ReturnValue(th) ==
  LET k == running[th] IN
  /\ k # 0
  /\ co[k] = "co_return"
  /\ promise_retval' = [promise_retval EXCEPT ![k].value = chunk[k]]
  /\ co' = [co EXCEPT ![k] = "release"]
  /\ thist' = [thist EXCEPT !.returned[k] = chunk[k]]
  /\ UNCHANGED <<ovars, done, promise_next, opretval, chunk, running, unitq, mpc>>

\* return_value, async_tool.h:268, done_mixin::_return, async_tool.h:249-251:
\* done->release()
ReleaseDone(th) ==
  LET k == running[th] IN
  /\ k # 0
  /\ co[k] = "release"
  /\ done' = [done EXCEPT ![k] = 1]
  /\ co' = [co EXCEPT ![k] = "final_suspend"]
  /\ UNCHANGED <<ovars, promise_next, promise_retval, opretval, chunk, running, unitq, mpc, thist>>

\* an unhandled_exception that keeps the exception in the promise's retval
UnhandledException_Store(th) ==
  LET k == running[th] IN
  /\ k # 0
  /\ co[k] = "unhandled"
  /\ co' = [co EXCEPT ![k] = "final_suspend"]
  /\ promise_retval' = [promise_retval EXCEPT ![k].e_ptr = get(opretval[k]).v]
  /\ UNCHANGED <<ovars, done, promise_next, opretval, chunk, running, unitq, mpc, thist>>

\* promise_type::unhandled_exception, async_tool.h:305: the exception that
\* left the body is dropped
UnhandledException(th) ==
  LET k == running[th] IN
  /\ k # 0
  /\ co[k] = "unhandled"
  /\ co' = [co EXCEPT ![k] = "final_suspend"]
  /\ UNCHANGED <<ovars, done, promise_next, promise_retval, opretval, chunk, running, unitq, mpc, thist>>

\* a final_suspend that never suspends: the frame is destroyed there also when
\* a continuation is registered
FinalSuspend_Destroy(th) ==
  LET k == running[th]
      n == promise_next[k] IN
  /\ k # 0
  /\ co[k] = "final_suspend"
  /\ IF n = 0
       THEN /\ co' = [co EXCEPT ![k] = "destroyed"]
            /\ running' = [running EXCEPT ![th] = 0]
            /\ UNCHANGED thist
       ELSE /\ co' = [co EXCEPT ![k] = "destroyed", ![n] = "wait_resume"]
            /\ running' = [running EXCEPT ![th] = n]
            /\ thist' = [thist EXCEPT !.resumed[n] = @ + 1]
  /\ UNCHANGED <<ovars, done, promise_next, promise_retval, opretval, chunk, unitq, mpc>>

\* a final_suspend that suspends the coroutine and returns to the caller of
\* resume() although a continuation is registered
FinalSuspend_Return(th) ==
  LET k == running[th] IN
  /\ k # 0
  /\ co[k] = "final_suspend"
  /\ co' = [co EXCEPT ![k] = IF promise_next[k] = 0 THEN "destroyed" ELSE "final"]
  /\ running' = [running EXCEPT ![th] = 0]
  /\ UNCHANGED <<ovars, done, promise_next, promise_retval, opretval, chunk, unitq, mpc, thist>>

\* final_suspend, async_tool.h:281-290, 302-304: without a continuation
\* await_ready is true, the coroutine is not suspended, its frame is destroyed
\* and resume() returns; with one it is suspended and await_suspend transfers
\* to the continuation
FinalSuspend(th) ==
  LET k == running[th]
      n == promise_next[k] IN
  /\ k # 0
  /\ co[k] = "final_suspend"
  /\ IF n = 0
       THEN /\ co' = [co EXCEPT ![k] = "destroyed"]
            /\ running' = [running EXCEPT ![th] = 0]
            /\ UNCHANGED thist
       ELSE /\ co' = [co EXCEPT ![k] = "final", ![n] = "wait_resume"]
            /\ running' = [running EXCEPT ![th] = n]
            /\ thist' = [thist EXCEPT !.resumed[n] = @ + 1]
  /\ UNCHANGED <<ovars, done, promise_next, promise_retval, opretval, chunk, unitq, mpc>>

\* co_task_awaitable::await_resume, async_tool.h:347-351: the promise's retval
\* is moved out, the awaited task's frame is destroyed, value.get() is the
\* value of the co_await expression.  chunk_t is not trivially constructible:
\* the storage is a std::optional and get_impl is noexcept, so value() of an
\* empty storage ends in std::terminate (async_tool.h:117-124)
WaitAwaitResume(th) ==
  LET k == running[th]
      value == promise_retval[k + 1] IN
  /\ k # 0
  /\ co[k] = "wait_resume"
  /\ IF value.value = NoValue
       THEN /\ co' = [co EXCEPT ![k + 1] = "destroyed"]
            /\ thist' = [thist EXCEPT !.terminated = TRUE]
            /\ mpc' = "terminated"
            /\ running' = [t \in TThreads |-> 0]
            /\ unitq' = <<>>
            /\ UNCHANGED chunk
       ELSE /\ co' = [co EXCEPT ![k + 1] = "destroyed", ![k] = "co_return"]
            /\ chunk' = [chunk EXCEPT ![k] = value.value]
            /\ UNCHANGED <<thist, mpc, running, unitq>>
  /\ UNCHANGED <<ovars, done, promise_next, promise_retval, opretval>>

NextTask ==
  \/ MainCreate \/ MainLaunch \/ MainCallSyncWait \/ MainSyncWaitReturn \/ MainExit
  \/ ExecutorCall \/ ExecutorCancel
  \/ \E th \in TThreads :
       \/ CreateChild(th) \/ AwaitSuspendWait(th) \/ BodyAwaitOp(th)
       \/ OpAwaitResume(th) \/ ReturnValue(th) \/ ReleaseDone(th)
       \/ UnhandledException(th) \/ FinalSuspend(th) \/ WaitAwaitResume(th)

SpecTask == InitTask /\ [][NextTask]_vars

\* one step of a thread of the task program: of the coroutine it is running,
\* of main inside sync_wait, of the executor's worker invoking a unit; when
\* main launches, waits or leaves its scope is the choice of the program
TaskStep(th) ==
  \/ CreateChild(th) \/ AwaitSuspendWait(th) \/ BodyAwaitOp(th)
  \/ OpAwaitResume(th) \/ ReturnValue(th) \/ ReleaseDone(th)
  \/ UnhandledException(th) \/ FinalSuspend(th) \/ WaitAwaitResume(th)
  \/ th = "main" /\ MainSyncWaitReturn
  \/ th = "worker" /\ ExecutorCall

\* the same program, each thread scheduled eventually while it can take a step
SpecTaskLive == SpecTask /\ \A th \in TThreads : WF_tvars(TaskStep(th))

\* --------------------------------------------------- try_await5: early teardown
\* resp owns the I/O runner ("io", runner<to_execute_t>), executor is the
\* runner<cancellable_function<void>> ("exec"); one coroutine alternates
\* co_await resp.get_chunk() and co_await execute_by(executor); main leaves the
\* scope without sync_wait: ~executor runs, then ~resp (playground.cpp:1146-1175).
\* The queues are taken as FIFO queues here: one unit is in flight at most.
Runners == {"io", "exec"}
xvars == <<qvars, lvars, role, nextVal, rvars, hvars, hist, svars,
           done, promise_next, promise_retval, opretval, running, unitq>>

InitTeardown ==
  /\ InitQueue
  /\ pc = <<>>
  /\ cur = <<>>
  /\ nxt = <<>>
  /\ arg = <<>>
  /\ ret = <<>>
  /\ role = <<>>
  /\ nextVal = 1
  /\ NoRunner
  /\ NoHarness
  /\ NoStream
  /\ hist = <<>>
  /\ done = <<>>
  /\ promise_next = <<>>
  /\ promise_retval = <<>>
  /\ opretval = <<>>
  /\ running = <<>>
  /\ unitq = <<>>
  /\ co = <<"created">>
  /\ chunk = <<NoValue>>
  /\ mpc = "launch"
  /\ rq = [r \in Runners |-> <<>>]
  /\ rsem = [r \in Runners |-> 0]
  /\ rstop = [r \in Runners |-> FALSE]
  /\ rpc = [r \in Runners |-> "acquire"]
  /\ rlive = [r \in Runners |-> TRUE]
  /\ thist = [ teardown   |-> FALSE,   \* the scope exit has begun
               reads      |-> 0,       \* stream reads executed
               destroyed  |-> 0,       \* h.destroy() calls on the coroutine
               lateResume |-> FALSE,   \* the coroutine was resumed after the scope exit began
               deadSubmit |-> FALSE ]  \* a unit was handed to a runner whose destructor had finished

\* runner::operator()(unit of the coroutine) on runner r, playground.h:686-692:
\* the unit is queued and one token released.  On a runner whose destructor has
\* finished this uses a destroyed queue and semaphore (undefined behaviour): the
\* unit is written to dead storage and lost, or the process ends.
Submit(r, suspendedAs) ==
  IF rlive[r]
    THEN /\ rq' = [rq EXCEPT ![r] = Append(@, 1)]
         /\ rsem' = [rsem EXCEPT ![r] = @ + 1]
         /\ co' = [co EXCEPT ![1] = suspendedAs]
         /\ UNCHANGED mpc
    ELSE /\ UNCHANGED <<rq, rsem>>
         /\ \/ /\ co' = [co EXCEPT ![1] = suspendedAs]
               /\ UNCHANGED mpc
            \/ /\ co' = [co EXCEPT ![1] = "crashed"]
               /\ mpc' = "crashed"

\* .launch(), playground.cpp:1169: the body runs on main up to its first
\* co_await resp.get_chunk(msg_buffer), which hands the read to the I/O runner
Launch5 ==
  /\ mpc = "launch"
  /\ rq' = [rq EXCEPT !["io"] = Append(@, 1)]
  /\ rsem' = [rsem EXCEPT !["io"] = @ + 1]
  /\ co' = [co EXCEPT ![1] = "await_read"]
  /\ mpc' = "launched"
  /\ UNCHANGED <<xvars, chunk, rstop, rpc, rlive, thist>>

\* the destructor that runs when main leaves the scope: executor first, then
\* resp and its I/O runner (reverse order of declaration, playground.cpp:1151-1153)
Dying == IF rlive["exec"] THEN "exec" ELSE "io"

\* runner::~runner -> stop, playground.h:646-647: stop_source.request_stop()
DtorStop ==
  /\ mpc \in {"launched", "next"}
  /\ rlive["io"]
  /\ rstop' = [rstop EXCEPT ![Dying] = TRUE]
  /\ mpc' = "release"
  /\ thist' = [thist EXCEPT !.teardown = TRUE]
  /\ UNCHANGED <<xvars, co, chunk, rq, rsem, rpc, rlive>>

\* runner::stop, playground.h:648: semaphore.release()
DtorRelease ==
  /\ mpc = "release"
  /\ rsem' = [rsem EXCEPT ![Dying] = @ + 1]
  /\ mpc' = "join"
  /\ UNCHANGED <<xvars, co, chunk, rq, rstop, rpc, rlive, thist>>

\* ~guarded_thread joins the worker; then semaphore, stop_source and queue are
\* destroyed (members of runner, playground.h:640-643)
DtorJoin ==
  /\ mpc = "join"
  /\ rpc[Dying] = "exit"
  /\ rlive' = [rlive EXCEPT ![Dying] = FALSE]
  /\ mpc' = IF Dying = "exec" THEN "next" ELSE "end"
  /\ UNCHANGED <<xvars, co, chunk, rq, rsem, rstop, rpc, thist>>

\* runner::run, playground.h:666: semaphore.acquire()
RunAcquire(r) ==
  /\ mpc # "crashed"
  /\ rpc[r] = "acquire"
  /\ rsem[r] > 0
  /\ rsem' = [rsem EXCEPT ![r] = @ - 1]
  /\ rpc' = [rpc EXCEPT ![r] = "check"]
  /\ UNCHANGED <<xvars, co, chunk, mpc, rq, rstop, rlive, thist>>

\* runner::run, playground.h:667-670: if (stop_requested()) drain(), return
RunCheckStop(r) ==
  /\ mpc # "crashed"
  /\ rpc[r] = "check"
  /\ rpc' = [rpc EXCEPT ![r] = IF rstop[r] THEN "drain" ELSE "pop"]
  /\ UNCHANGED <<xvars, co, chunk, mpc, rq, rsem, rstop, rlive, thist>>

\* runner::run, playground.h:671-672: queue.try_pop()
RunPop(r) ==
  /\ mpc # "crashed"
  /\ rpc[r] = "pop"
  /\ IF rq[r] = <<>>
       THEN /\ rpc' = [rpc EXCEPT ![r] = "acquire"]
            /\ UNCHANGED rq
       ELSE /\ rpc' = [rpc EXCEPT ![r] = "call"]
            /\ rq' = [rq EXCEPT ![r] = Tail(@)]
  /\ UNCHANGED <<xvars, co, chunk, mpc, rsem, rstop, rlive, thist>>

\* runner::drain, playground.h:651-660: every queued unit is cancelled, that is
\* h.destroy() (async_tool.h:205-209, 402); then run returns
RunDrain(r) ==
  /\ mpc # "crashed"
  /\ rpc[r] = "drain"
  /\ IF rq[r] = <<>>
       THEN /\ rpc' = [rpc EXCEPT ![r] = "exit"]
            /\ UNCHANGED <<rq, co, thist>>
       ELSE /\ rq' = [rq EXCEPT ![r] = Tail(@)]
            /\ co' = [co EXCEPT ![1] = "destroyed"]
            /\ thist' = [thist EXCEPT !.destroyed = @ + 1]
            /\ UNCHANGED rpc
  /\ UNCHANGED <<xvars, chunk, mpc, rsem, rstop, rlive>>

\* to_execute_t::operator() on the I/O worker, async_tool.h:201:
\* retval->execute(read): the read returns the next message of the server, a
\* Streaming chunk or, after MaxChunks of them, Done (playground.cpp:986-999)
IoCall ==
  /\ mpc # "crashed"
  /\ rpc["io"] = "call"
  /\ chunk' = [chunk EXCEPT ![1] = IF thist.reads < MaxChunks THEN 1 ELSE NoValue]
  /\ thist' = [thist EXCEPT !.reads = @ + 1]
  /\ co' = [co EXCEPT ![1] = "read_done"]
  /\ rpc' = [rpc EXCEPT !["io"] = "resume"]
  /\ UNCHANGED <<xvars, mpc, rq, rsem, rstop, rlive>>

\* to_execute_t::operator(), async_tool.h:202: h.resume() on the I/O worker;
\* the body goes on to co_await execute_by(executor) (playground.cpp:1159),
\* whose await_suspend calls executor(...) (async_tool.h:401-403)
IoResume ==
  /\ mpc # "crashed"
  /\ rpc["io"] = "resume"
  /\ Submit("exec", "await_exec")
  /\ rpc' = [rpc EXCEPT !["io"] = "acquire"]
  /\ thist' = [thist EXCEPT !.lateResume = @ \/ thist.teardown,
                            !.deadSubmit = @ \/ ~rlive["exec"]]
  /\ UNCHANGED <<xvars, chunk, rstop, rlive>>

\* the unit of execute_by on the executor's worker, async_tool.h:402:
\* h.resume(); the body prints the chunk and awaits the next read, or leaves
\* the loop after the last one and ends (playground.cpp:1160-1168)
ExecCall ==
  /\ mpc # "crashed"
  /\ rpc["exec"] = "call"
  /\ IF chunk[1] # NoValue
       THEN Submit("io", "await_read")
       ELSE /\ co' = [co EXCEPT ![1] = "done"]
            /\ UNCHANGED <<rq, rsem, mpc>>
  /\ rpc' = [rpc EXCEPT !["exec"] = "acquire"]
  /\ thist' = [thist EXCEPT !.lateResume = @ \/ thist.teardown,
                            !.deadSubmit = @ \/ (chunk[1] # NoValue /\ ~rlive["io"])]
  /\ UNCHANGED <<xvars, chunk, rstop, rlive>>

NextTeardown ==
  \/ Launch5 \/ DtorStop \/ DtorRelease \/ DtorJoin
  \/ IoCall \/ IoResume \/ ExecCall
  \/ \E r \in Runners : RunAcquire(r) \/ RunCheckStop(r) \/ RunPop(r) \/ RunDrain(r)

SpecTeardown == InitTeardown /\ [][NextTeardown]_vars

\* ------------------------------------------------- sync_stream: try_msg_stream
SWriters == 1..NumWriter
SReaders == (NumWriter + 1)..(NumWriter + NumReader)
SThreads == SWriters \cup SReaders
NoMsg == <<0, 0>>   \* a default-constructed msg_t

\* everything but the stream, the counter_controller and the loop counters
zvars == <<qvars, lvars, role, nextVal, rvars, tvars, hist, stop_signal, sum, eload>>

\* try_msg_stream, playground.cpp:395-396: the stream and the counter, no
\* thread running yet
InitStream ==
  /\ InitQueue
  /\ pc = <<>>
  /\ cur = <<>>
  /\ nxt = <<>>
  /\ arg = <<>>
  /\ ret = <<>>
  /\ role = <<>>
  /\ nextVal = 1
  /\ NoRunner
  /\ NoTask
  /\ hist = <<>>
  /\ count = 0
  /\ stop_signal = FALSE
  /\ iter = [t \in SWriters |-> 0]
  /\ sum = <<>>
  /\ eload = <<>>
  /\ mutex = 0
  /\ queue = <<>>
  /\ stoped = FALSE
  /\ waiting = {}
  /\ spc = [t \in SThreads |-> "not_started"]
  /\ buffer = [t \in SReaders |-> NoMsg]
  /\ nextId = 1
  /\ shist = [t \in SReaders |-> FALSE]   \* the read in progress has waited

\* try_msg_stream, playground.cpp:399, 406: counter_controller::guard
\* constructor, ++count (playground.cpp:358-361, 370-372)
WriterStart(t) ==
  /\ t \in SWriters
  /\ spc[t] = "not_started"
  /\ count' = count + 1
  /\ spc' = [spc EXCEPT ![t] = "w_loop"]
  /\ UNCHANGED <<zvars, iter, mutex, queue, stoped, waiting, buffer, nextId, shist>>

\* try_msg_stream, playground.cpp:400, 407: i < 5 ? write_sync(...) : leave
WriterLoop(t) ==
  /\ t \in SWriters
  /\ spc[t] = "w_loop"
  /\ spc' = [spc EXCEPT ![t] = IF iter[t] < NumWrite THEN "w_lock" ELSE "w_dec"]
  /\ UNCHANGED <<zvars, count, iter, mutex, queue, stoped, waiting, buffer, nextId, shist>>

\* sync_stream::write_sync, playground.h:578: std::lock_guard lock{mutex}
WriteLock(t) ==
  /\ t \in SWriters
  /\ spc[t] = "w_lock"
  /\ mutex = 0
  /\ mutex' = t
  /\ spc' = [spc EXCEPT ![t] = "w_push"]
  /\ UNCHANGED <<zvars, count, iter, queue, stoped, waiting, buffer, nextId, shist>>

\* sync_stream::write_sync, playground.h:579-582: serial_number = id_gen()
\* (++current_id, playground.h:310-312), push_back, end of the lock's scope
WritePush(t) ==
  /\ t \in SWriters
  /\ spc[t] = "w_push"
  /\ mutex = t
  /\ queue' = Append(queue, <<nextId, t>>)
  /\ nextId' = nextId + 1
  /\ mutex' = 0
  /\ spc' = [spc EXCEPT ![t] = "w_notify"]
  /\ UNCHANGED <<zvars, count, iter, stoped, waiting, buffer, shist>>

\* sync_stream::write_sync, playground.h:583-584: cv->notify_one(), return
\* good; try_msg_stream, playground.cpp:400: i++
WriteNotify(t) ==
  /\ t \in SWriters
  /\ spc[t] = "w_notify"
  /\ IF waiting = {}
       THEN /\ waiting' = waiting
            /\ spc' = [spc EXCEPT ![t] = "w_loop"]
       ELSE \E w \in waiting :
              /\ waiting' = waiting \ {w}
              /\ spc' = [spc EXCEPT ![w] = "r_relock", ![t] = "w_loop"]
  /\ iter' = [iter EXCEPT ![t] = @ + 1]
  /\ UNCHANGED <<zvars, count, mutex, queue, stoped, buffer, nextId, shist>>

\* try_msg_stream, playground.cpp:402, 416: counter_controller::guard
\* destructor, if (--count == 0) callback() (playground.cpp:362-367, 373-375)
WriterLeave(t) ==
  /\ t \in SWriters
  /\ spc[t] = "w_dec"
  /\ count' = count - 1
  /\ spc' = [spc EXCEPT ![t] = IF count - 1 = 0 THEN "stop_store" ELSE "done"]
  /\ UNCHANGED <<zvars, iter, mutex, queue, stoped, waiting, buffer, nextId, shist>>

\* sync_stream::stop, playground.h:603-605, stopable_cv::stop,
\* playground.h:240-241: stoped = true, an atomic store made without the mutex
StopStore(t) ==
  /\ t \in SWriters
  /\ spc[t] = "stop_store"
  /\ stoped' = TRUE
  /\ spc' = [spc EXCEPT ![t] = "stop_notify"]
  /\ UNCHANGED <<zvars, count, iter, mutex, queue, waiting, buffer, nextId, shist>>

\* stopable_cv::stop, playground.h:242: cv.notify_all()
StopNotify(t) ==
  /\ t \in SWriters
  /\ spc[t] = "stop_notify"
  /\ waiting' = {}
  /\ spc' = [w \in SThreads |-> IF w = t THEN "done"
                                 ELSE IF w \in waiting THEN "r_relock" ELSE spc[w]]
  /\ UNCHANGED <<zvars, count, iter, mutex, queue, stoped, buffer, nextId, shist>>

\* try_msg_stream, playground.cpp:424-425: while (stream) { msg_t msg; ... };
\* sync_stream::operator bool, playground.h:599-601, reads queue and stoped
\* without the mutex
ReaderLoop(t) ==
  /\ t \in SReaders
  /\ spc[t] \in {"not_started", "r_loop"}
  /\ spc' = [spc EXCEPT ![t] = IF queue # <<>> \/ ~stoped THEN "r_lock" ELSE "done"]
  /\ buffer' = [buffer EXCEPT ![t] = NoMsg]
  /\ shist' = [shist EXCEPT ![t] = FALSE]
  /\ UNCHANGED <<zvars, count, iter, mutex, queue, stoped, waiting, nextId>>

\* sync_stream::read_sync, playground.h:588: std::unique_lock lock{mutex};
\* also the lock taken again when condition_variable::wait wakes up
ReadLock(t) ==
  /\ t \in SReaders
  /\ spc[t] \in {"r_lock", "r_relock"}
  /\ mutex = 0
  /\ mutex' = t
  /\ spc' = [spc EXCEPT ![t] = "r_pred"]
  /\ UNCHANGED <<zvars, count, iter, queue, stoped, waiting, buffer, nextId, shist>>

\* sync_stream::read_sync, playground.h:589: the predicate of cv->wait,
\* !queue.empty() || cv.is_stoped(), evaluated with the mutex held
ReadPred(t) ==
  /\ t \in SReaders
  /\ spc[t] = "r_pred"
  /\ mutex = t
  /\ spc' = [spc EXCEPT ![t] = IF queue # <<>> \/ stoped THEN "r_take" ELSE "r_block"]
  /\ UNCHANGED <<zvars, count, iter, mutex, queue, stoped, waiting, buffer, nextId, shist>>

\* sync_stream::read_sync, playground.h:589: condition_variable::wait(lock)
\* releases the mutex and blocks, in one atomic step
ReadWait(t) ==
  /\ t \in SReaders
  /\ spc[t] = "r_block"
  /\ mutex = t
  /\ mutex' = 0
  /\ waiting' = waiting \cup {t}
  /\ spc' = [spc EXCEPT ![t] = "r_waiting"]
  /\ shist' = [shist EXCEPT ![t] = TRUE]
  /\ UNCHANGED <<zvars, count, iter, queue, stoped, buffer, nextId>>

\* std::condition_variable::wait may return without a notification
SpuriousWakeup(t) ==
  /\ t \in SReaders
  /\ spc[t] = "r_waiting"
  /\ t \in waiting
  /\ waiting' = waiting \ {t}
  /\ spc' = [spc EXCEPT ![t] = "r_relock"]
  /\ UNCHANGED <<zvars, count, iter, mutex, queue, stoped, buffer, nextId, shist>>

\* get_front taking the newest message instead of the oldest
get_back(q) == [data |-> q[Len(q)], queue |-> SubSeq(q, 1, Len(q) - 1)]

\* sync_stream::get_front, playground.h:613-616: data = std::move(queue.front()),
\* queue.pop_front()
get_front(q) == [data |-> Head(q), queue |-> Tail(q)]

\* sync_stream::read_sync, playground.h:590-594: a message in the queue is
\* moved to data and the result is good, otherwise the result is empty; the
\* unique_lock releases the mutex on return
ReadTake(t) ==
  /\ t \in SReaders
  /\ spc[t] = "r_take"
  /\ mutex = t
  /\ IF queue # <<>>
       THEN /\ buffer' = [buffer EXCEPT ![t] = get_front(queue).data]
            /\ queue' = get_front(queue).queue
            /\ spc' = [spc EXCEPT ![t] = "r_good"]
       ELSE /\ UNCHANGED <<buffer, queue>>
            /\ spc' = [spc EXCEPT ![t] = "r_empty"]
  /\ mutex' = 0
  /\ UNCHANGED <<zvars, count, iter, stoped, waiting, nextId, shist>>

\* try_msg_stream, playground.cpp:426-428: std::visit(output, msg.data) on
\* good, then the next iteration
ReaderVisit(t) ==
  /\ t \in SReaders
  /\ spc[t] \in {"r_good", "r_empty"}
  /\ spc' = [spc EXCEPT ![t] = "r_loop"]
  /\ UNCHANGED <<zvars, count, iter, mutex, queue, stoped, waiting, buffer, nextId, shist>>

NextStream ==
  \/ \E t \in SWriters : \/ WriterStart(t)
                          \/ WriterLoop(t)
                          \/ WriteLock(t)
                          \/ WritePush(t)
                          \/ WriteNotify(t)
                          \/ WriterLeave(t)
                          \/ StopStore(t)
                          \/ StopNotify(t)
  \/ \E t \in SReaders : \/ ReaderLoop(t)
                          \/ ReadLock(t)
                          \/ ReadPred(t)
                          \/ ReadWait(t)
                          \/ SpuriousWakeup(t)
                          \/ ReadTake(t)
                          \/ ReaderVisit(t)

SpecStream == InitStream /\ [][NextStream]_vars

\* one step of a thread of try_msg_stream; a wake-up without a notification
\* is not among them, a condition variable need not produce one
StreamStep(t) ==
  \/ WriterStart(t) \/ WriterLoop(t) \/ WriteLock(t) \/ WritePush(t)
  \/ WriteNotify(t) \/ WriterLeave(t) \/ StopStore(t) \/ StopNotify(t)
  \/ ReaderLoop(t) \/ ReadLock(t) \/ ReadPred(t) \/ ReadWait(t)
  \/ ReadTake(t) \/ ReaderVisit(t)

\* the same threads, each scheduled eventually while it can take a step
\* (every step of a thread moves its position)
SpecStreamLive == SpecStream /\ \A t \in SThreads : WF_spc(StreamStep(t))

\* ------------------------------------------------------------------ claims
\* shape of the queue state
QueueTypeOK ==
  /\ head \in Slots
  /\ tail \in Slots
  /\ flag \in [Slots -> {"empty", "busy", "not_empty"}]
  /\ data \in [Slots -> Values \cup {NoValue}]
PoppedValues == {hist.popped[i] : i \in DOMAIN hist.popped}

Quiescent == \A t \in Threads : pc[t] = "idle"

\* C1: every payload whose try_push returned true is returned by exactly one
\* try_pop: no payload is returned twice, only pushed payloads are returned,
\* and once no call is in progress and try_pop can only report an empty queue
\* (head = tail), every accepted payload has been returned.
C1_ExactlyOnce ==
  /\ \A i, j \in DOMAIN hist.popped : hist.popped[i] = hist.popped[j] => i = j
  /\ PoppedValues \subseteq hist.wrote
  /\ (Quiescent /\ empty) => hist.accepted \subseteq PoppedValues

\* C2: the number of values accepted by a CAS on tail and not yet claimed by a
\* CAS on head never exceeds cap.
C2_CapacityBound == hist.pushCas - hist.popCas <= Cap

\* C3: head never advances past tail: every successful CAS on head claims an
\* index that a successful CAS on tail has published before.
C3_HeadNotPastTail == hist.popCas <= hist.pushCas

\* position of payload v in sequence s of payloads (0 when absent)
IndexIn(s, v) == IF \E i \in DOMAIN s : s[i] = v
                   THEN CHOOSE i \in DOMAIN s : s[i] = v ELSE 0

PoppedSeq == hist.popped

SameProducerInOrder(a, b) ==
  a < b /\ hist.pusher[a] # 0 /\ hist.pusher[a] = hist.pusher[b]

SingleConsumer == Cardinality({t \in Threads : role[t] = "consumer"}) = 1

\* C9: per-producer FIFO.  For two accepted payloads a, b pushed in that order
\* by one thread, b's slot index is claimed by a CAS on head only after a's
\* was, and with a single consumer b is returned only after a was returned.
C9_PerProducerFifo ==
  \A a, b \in Values :
    (SameProducerInOrder(a, b) /\ a \in hist.accepted) =>
      /\ (IndexIn(hist.claims, b) # 0) =>
           (IndexIn(hist.claims, a) # 0 /\ IndexIn(hist.claims, a) < IndexIn(hist.claims, b))
      /\ (SingleConsumer /\ IndexIn(PoppedSeq, b) # 0) =>
           (IndexIn(PoppedSeq, a) # 0 /\ IndexIn(PoppedSeq, a) < IndexIn(PoppedSeq, b))

\* C4: once the worker thread has exited and been joined (no submit being in
\* progress), every unit that was
\* published in the queue when stop was requested has been invoked exactly
\* once or cancelled exactly once, never both and never neither.
C4_QueuedUnitsSettled ==
  /\ \A u \in Units : hist.called[u] + hist.cancelled[u] <= 1
  /\ (owner = "joined" /\ \A t \in Submitters : pc[t] = "idle") => hist.pending = {}

\* C5: if K units were submitted (every submit had returned, none was invoked)
\* when stop was requested and none is submitted afterwards, then once the
\* worker has exited all K units were cancelled once and none was invoked.
C5_DrainOnShutdown ==
  (owner = "joined" /\ hist.quietStop) =>
     \A u \in 1..(nextVal - 1) : hist.cancelled[u] = 1 /\ hist.called[u] = 0

\* C6: a frame destroyed while the unit of its pending co_await was queued was
\* destroyed by that unit's cancel path only: the unit was cancelled once,
\* never invoked, and the frame was neither resumed nor destroyed again.
C6_DestroyedFrameNotResumed ==
  /\ ~hist.deadUse
  /\ \A u \in Units :
       hist.destroyed[u] > 0 =>
         /\ hist.cancelled[u] = 1
         /\ hist.called[u] = 0
         /\ hist.resumed[u] = 0
         /\ hist.destroyed[u] = 1
         /\ frame[uframe[u]] = "destroyed"

C6_Witness ==
  \E u \in Units : hist.destroyed[u] = 1 /\ hist.cancelled[u] = 1 /\ frame[uframe[u]] = "destroyed"

\* C7: for every suspension (unit) at most one of {resume, destroy} is applied
\* to the frame, at most once, and the unit is called or cancelled at most once.
C7_ResumeXorDestroy ==
  \A u \in Units :
    /\ hist.resumed[u] + hist.destroyed[u] <= 1
    /\ hist.called[u] + hist.cancelled[u] <= 1

C7_Witness ==
  /\ \E u \in Units : hist.resumed[u] = 1 /\ hist.called[u] = 1
  /\ \E u \in Units : hist.destroyed[u] = 1 /\ hist.cancelled[u] = 1

\* C8: what the coroutine observes in await_resume is what the stream operation
\* did on the worker: the same failure when it threw, its return value otherwise.
C8_ResultPropagation ==
  (kind = "to_execute" /\ hist.observed # NoOutcome) => hist.observed = hist.outcome

C8_Witness ==
  /\ kind = "to_execute"
  /\ hist.outcome.kind = "throw"
  /\ hist.observed = hist.outcome
  /\ \E u \in Units : hist.called[u] = 1 /\ hist.resumed[u] = 1 /\ hist.outcome.v = u

RECURSIVE SumOver(_, _)
SumOver(f, S) == IF S = {} THEN 0
                 ELSE LET x == CHOOSE y \in S : TRUE IN f[x] + SumOver(f, S \ {x})

AllExited == \A t \in HThreads : pc[t] = "exited"

\* C10: in the stress harness, once every producer and consumer thread has
\* exited, the values popped add up to the values pushed, NumProducer * Num.
C10_SumPreserved ==
  AllExited => SumOver(sum, Consumers) = NumProducer * Num

\* the producers have stopped: no try_push is in progress and none can start
ProducersStopped ==
  /\ nextVal > MaxPush
  /\ \A t \in Threads : role[t] = "producer" => pc[t] = "idle"

\* C11: once the producers have stopped, empty() returning true (head = tail)
\* implies that every accepted payload has been claimed by a try_pop.
C11_EmptyTrueIsEmpty ==
  (ProducersStopped /\ empty) =>
    \A v \in hist.accepted : IndexIn(hist.claims, v) # 0

\* threads that hold slot i busy: between their CAS on its flag and their release
Holders(i) ==
  {t \in DOMAIN pc : pc[t] \in {"push_store", "pop_move"} /\ cur[t] = i}

\* C12: a try_pop reads the data of a slot only after a try_push has stored its
\* payload there and released the flag to not_empty: when it reads, the slot is
\* busy, it is the only thread holding the slot and the slot holds a payload
\* that was passed to a try_push, and the value a successful try_pop returns
\* is such a payload.
C12_PoppedIsPublished ==
  \A t \in Threads :
    /\ (pc[t] = "pop_move") =>
         /\ flag[cur[t]] = "busy"
         /\ Holders(cur[t]) = {t}
         /\ data[cur[t]] \in 1..(nextVal - 1)
    /\ (pc[t] = "pop_ret" /\ ret[t] # NoValue) => ret[t] \in 1..(nextVal - 1)

\* a payload stored after the ring has wrapped around is returned by a try_pop
\* while a try_push is waiting for a slot
C12_Witness ==
  \E t, p \in Threads :
    /\ pc[t] = "pop_ret" /\ ret[t] > Cap + 1
    /\ pc[p] = "push_flag"

\* the task has completed by co_return: its value is stored and *done released
Completed(k) ==
  /\ thist.returned[k] # NoValue
  /\ co[k] \in {"final_suspend", "final", "destroyed"}

\* C13: after the launched task has completed, a sync_wait() call does not
\* block: whenever main is inside such a call the completion signal is
\* available, so the call returns.
C13_SyncWaitRepeatable ==
  (mpc = "sync_wait" /\ Completed(1)) => done[1] > 0

\* life-cycle state of a task: Created (suspended at its initial suspend
\* point), Running (resumed and not yet at its final suspend point), Completed;
\* a task whose suspended frame a cancel destroyed never completes
Phase(c) ==
  CASE c = "none" -> "None"
    [] c = "created" -> "Created"
    [] c \in {"final", "destroyed"} -> "Completed"
    [] OTHER -> "Running"

\* C14, state part: a task that is awaited through wait() runs its body only
\* with the awaiting coroutine registered as its continuation; the awaiting
\* coroutine is resumed at most once and only when the awaited task has stored
\* its return value, and the co_await expression yields that value.
C14_WaitState ==
  \A k \in Tasks :
    /\ (k > 1 /\ thist.ran[k]) => promise_next[k] = k - 1
    /\ thist.resumed[k] <= 1
    /\ (k < NTask /\ co[k] = "wait_resume") =>
         /\ thist.returned[k + 1] # NoValue
         /\ promise_retval[k + 1].value = thist.returned[k + 1]
    /\ (k < NTask /\ co[k] = "co_return" /\ thist.resumed[k] = 1) =>
         chunk[k] = thist.returned[k + 1]

\* C14, step part: the awaiting coroutine is resumed only by the step in which
\* the awaited task suspends at its final suspend point, on the thread that
\* ran the awaited task, and that step hands nothing to the executor.
C14_WaitStep ==
  \A k \in Tasks :
    (k < NTask /\ co[k] = "awaiting" /\ co'[k] # "awaiting") =>
      /\ co'[k] = "wait_resume"
      /\ co[k + 1] = "final_suspend" /\ co'[k + 1] = "final"
      /\ unitq' = unitq
      /\ \E th \in TThreads : running[th] = k + 1 /\ running'[th] = k

\* C14: co_await t.wait() registers the awaiting coroutine before t's body
\* runs, resumes it exactly once after t stored its return value, by a direct
\* transfer without the executor's queue, and yields the value t returned.
C14_WaitTransfers == []C14_WaitState /\ [][C14_WaitStep]_vars

\* C15, state part: the body of a task executes no step before the task is
\* resumed from its initial suspend point by launch() or by a wait() transfer,
\* and sync_wait() has returned only if the body reached its co_return.
C15_LifecycleState ==
  /\ \A k \in Tasks :
       /\ thist.ran[k] => thist.launched[k]
       /\ co[k] = "created" => ~thist.ran[k]
  /\ mpc = "waited" => thist.returned[1] # NoValue

\* C15, step part: a task's life-cycle state changes only from Created to
\* Running and from Running to Completed.
C15_LifecycleStep ==
  \A k \in Tasks :
    Phase(co'[k]) # Phase(co[k]) =>
      <<Phase(co[k]), Phase(co'[k])>> \in
        {<<"None", "Created">>, <<"Created", "Running">>, <<"Running", "Completed">>}

\* C15: a task is created suspended and runs no step of its body before it is
\* launched; its life cycle is Created -> Running -> Completed; sync_wait()
\* never returns before the body has reached its co_return.
C15_TaskLifecycle == []C15_LifecycleState /\ [][C15_LifecycleStep]_vars

C15_Witness ==
  /\ mpc = "waited"
  /\ co[1] = "destroyed"
  /\ thist.returned[1] # NoValue
  /\ \E k \in Tasks : k > 1 /\ co[k] = "destroyed"

\* units the worker has invoked or cancelled
SettledUnits == {u \in Units : hist.called[u] + hist.cancelled[u] > 0}

\* C16: the worker settles units in submission order: when it has invoked or
\* cancelled a unit, every unit whose submit had returned before the submit of
\* that unit started has been invoked or cancelled; and at most one unit is
\* being run at any time.
C16_SubmissionOrder ==
  /\ \A u \in SettledUnits : hist.ahead[u] = {}
  /\ Cardinality({t \in RThreads : pc[t] \in {"w_call", "w_resume"}}) <= 1

\* the co_await of unit u was performed by the worker thread: u is not the
\* first unit of its coroutine, so the coroutine had been resumed by the worker
ByWorker(u) == \E v \in 1..(u - 1) : uframe[v] = uframe[u]

\* C17 as stated: the stream operation of a unit is never executed (by the
\* worker, the only thread that invokes units) when the worker is the thread
\* that performed its co_await.
C17_NeverOnAwaitingThread ==
  kind = "to_execute" =>
    \A u \in 1..(nextVal - 1) : hist.called[u] > 0 => ~ByWorker(u)

\* C17 amended, state part: the coroutine of a unit that is being submitted or
\* is queued is suspended, and a unit's stream operation has been executed
\* only after its try_push stored it in the queue, never inside the co_await.
C17_DelegatedState ==
  kind = "to_execute" =>
    \A u \in 1..(nextVal - 1) :
      /\ (hist.called[u] = 0 /\ hist.cancelled[u] = 0 /\ ~aborted) =>
           frame[uframe[u]] = "suspended"
      /\ hist.called[u] > 0 =>
           \A t \in RThreads : arg[t] = u => pc[t] = "push_ret"

\* C17 amended, step part: a unit is invoked and its coroutine resumed only
\* by steps of the worker thread inside runner::run.
C17_DelegatedStep ==
  kind = "to_execute" =>
    \A u \in Units :
      /\ hist'.called[u] # hist.called[u] => (pc[W] = "w_call" /\ task = u)
      /\ hist'.resumed[u] # hist.resumed[u] => (pc[W] = "w_resume" /\ task = u)

\* C17 amended: a dispatcher awaitable always suspends; its stream operation
\* is executed only by the worker thread, after the unit was queued; the
\* code after the co_await runs on the worker thread.
C17_Delegated == []C17_DelegatedState /\ [][C17_DelegatedStep]_vars

\* the worker has executed the operation of a unit whose co_await it performed
\* itself, after a unit whose co_await a submitter performed
C17_Witness ==
  /\ kind = "to_execute"
  /\ \E u, v \in 1..(nextVal - 1) :
       /\ ByWorker(u) /\ hist.called[u] > 0 /\ hist.resumed[u] > 0
       /\ ~ByWorker(v) /\ hist.called[v] > 0

\* C18: when main leaves the scope of try_await5 while the coroutine is
\* suspended, the coroutine is not resumed after the teardown began, no unit
\* is handed to a runner whose destructor has finished, the frame is destroyed
\* at most once, and once both runners are gone the frame has been destroyed by
\* a cancel (or the coroutine had ended).
C18_EarlyTeardown ==
  /\ ~thist.lateResume
  /\ ~thist.deadSubmit
  /\ thist.destroyed <= 1
  /\ mpc = "end" => co[1] \in {"destroyed", "done"}

\* 2^k
RECURSIVE Pow2(_)
Pow2(k) == IF k = 0 THEN 1 ELSE 2 * Pow2(k - 1)

\* C19: a queue constructed with the argument Cap holds 2^Cap items: as long
\* as nothing has been popped, each of the first 2^Cap try_push calls (the
\* payloads are numbered in the order of the calls) returns true.
C19_LogCapacity ==
  \A t \in Threads :
    (pc[t] = "push_ret" /\ hist.popCas = 0 /\ arg[t] <= Pow2(Cap)) => ret[t] = PushTrue

InRead(t) == spc[t] \in {"r_lock", "r_pred", "r_block", "r_waiting", "r_relock", "r_take"}
Returned(t) == spc[t] \in {"r_good", "r_empty"}

\* C20: the queue of the stream holds the written messages not yet read, the
\* oldest first; a reader that has returned empty holds no message
C20_ReadState ==
  /\ \A i, j \in 1..Len(queue) : i < j => queue[i][1] < queue[j][1]
  /\ \A i \in 1..Len(queue) : queue[i][1] < nextId
  /\ \A t \in SReaders :
       /\ spc[t] = "r_good" => buffer[t] # NoMsg
       /\ spc[t] = "r_empty" => (stoped /\ buffer[t] = NoMsg)
       /\ spc[t] = "r_waiting" => shist[t]

\* C20: read_sync returns only when a message is available or the stream is
\* stopped; with a message available (stopped or not) it returns good, takes
\* the front message and leaves the rest; it returns empty only when the
\* stream is stopped and the queue is empty; a write appends at the back
C20_ReadStep ==
  /\ \A t \in SReaders :
       (InRead(t) /\ Returned(t)') =>
         IF queue # <<>>
           THEN /\ spc'[t] = "r_good"
                /\ buffer'[t] = Head(queue)
                /\ queue' = Tail(queue)
           ELSE /\ spc'[t] = "r_empty"
                /\ stoped
                /\ queue' = queue
  /\ queue' # queue =>
       \/ \E w \in SWriters : queue' = Append(queue, <<nextId, w>>)
       \/ \E t \in SReaders : InRead(t) /\ spc'[t] = "r_good"

\* C20: sync_stream blocking read with stop/drain: read_sync blocks while the
\* stream is empty and not stopped, returns good with the oldest written
\* message whenever one is available, also after stop() until the queue is
\* drained, and returns empty only when the stream is stopped and empty
C20_BlockingRead == []C20_ReadState /\ [][C20_ReadStep]_vars

\* a reader that waited on the empty stream has returned good after stop()
\* while another message is still to be drained
C20_Witness ==
  \E t \in SReaders : spc[t] = "r_good" /\ shist[t] /\ stoped /\ queue # <<>>

\* the values a bounded FIFO would hold after the calls that have returned:
\* accepted by a try_push and not yet returned by a try_pop
Held == hist.accepted \ {hist.popped[i] : i \in 1..Len(hist.popped)}
Oldest(S) == CHOOSE v \in S : \A w \in S : v <= w

C22_SubmitReturns ==
  \A t \in RThreads :
    [](arg[t] # NoValue => <>(arg[t] = NoValue \/ stop_requested \/ aborted))

\* the body of task k ended by an exception, not by co_return
Failed(k) == co[k] \in {"final_suspend", "final", "destroyed"} /\ thist.returned[k] = NoValue

\* C23: no exception is ever kept in a promise, and a task whose waiter went
\* on (sync_wait returned, or the co_await of wait() gave a value) has
\* completed by co_return
C23_DiscardedState ==
  /\ \A k \in Tasks : promise_retval[k].e_ptr = NullPtr
  /\ mpc = "waited" => Completed(1)
  /\ \A k \in Tasks : (co[k] = "co_return" /\ k < NTask /\ co[k + 1] = "destroyed")
                        => chunk[k] = thist.returned[k + 1]

\* C23: an exception that leaves the body is dropped by unhandled_exception
\* with the promise and the completion signal untouched, the coroutine goes on
\* to its final suspend point, and there a registered continuation is resumed,
\* as it is after a co_return
C23_DiscardedStep ==
  \A k \in Tasks :
    /\ (co[k] = "unhandled" /\ co'[k] # co[k]) =>
         /\ co'[k] = "final_suspend"
         /\ promise_retval' = promise_retval
         /\ done' = done
    /\ (co[k] = "final_suspend" /\ co'[k] # co[k] /\ promise_next[k] # 0) =>
         /\ co'[k] = "final"
         /\ co'[promise_next[k]] = "wait_resume"
         /\ \E th \in TThreads : running[th] = k /\ running'[th] = promise_next[k]

\* C23: an unhandled failure raised inside a task's coroutine body is
\* discarded at the promise boundary: the coroutine proceeds to its final
\* suspend point, a registered continuation is still resumed, and neither
\* sync_wait() nor wait() hands the failure to the waiter
C23_FailureDiscarded == []C23_DiscardedState /\ [][C23_DiscardedStep]_vars

\* the body of a task ended by an exception and its continuation was resumed
C23_Witness ==
  \E k \in Tasks : /\ k > 1
                   /\ Failed(k)
                   /\ co[k] = "final"
                   /\ co[k - 1] = "wait_resume"
                   /\ thist.resumed[k - 1] = 1

C25_OneHolder ==
  \A i \in Slots :
    /\ Cardinality(Holders(i)) <= 1
    /\ flag[i] = "busy" <=> Holders(i) # {}

\* C25: the data of a slot is read or written only by the thread that holds
\* the slot busy, in the step that ends with its release of the flag
C25_HolderOnlyStep ==
  \A i \in Slots :
    data'[i] # data[i] =>
      \E t \in Holders(i) : /\ Holders(i) = {t}
                            /\ pc'[t] \in {"push_ret", "pop_ret"}
                            /\ flag'[i] \in {"not_empty", "empty"}

C26_CallsReturn ==
  \A t \in Threads : [](pc[t] # "idle" => <>(pc[t] = "idle"))

\* C27: a data move that throws inside try_push or try_pop loses the item in
\* flight only: the slot is left without data and with the flag of the
\* finished operation, and every other accepted payload is still returned by
\* try_pop exactly once.
C27_MoveFailureContained ==
  hist.lost # {} =>
    /\ \A i, j \in DOMAIN hist.popped : i # j => hist.popped[i] # hist.popped[j]
    /\ PoppedValues \cap hist.lost = {}
    /\ \A i \in Slots : flag[i] = "empty" => data[i] = NoValue
    /\ (Quiescent /\ head = tail) => (hist.accepted \ hist.lost) \subseteq PoppedValues

\* C28: a task that completes by co_return stores the return value in its
\* promise, then releases the completion signal, then, with a continuation
\* registered, resumes that continuation as the next step of the same thread,
\* before resume() returns to that thread.
C28_CompletionState ==
  \A k \in Tasks :
    /\ co[k] = "release" =>
         /\ thist.returned[k] # NoValue
         /\ promise_retval[k].value = thist.returned[k]
         /\ done[k] = 0
    /\ (co[k] = "final_suspend" /\ thist.returned[k] # NoValue) =>
         /\ promise_retval[k].value = thist.returned[k]
         /\ k # 1 => done[k] = 1

C28_CompletionStep ==
  \A k \in Tasks :
    /\ (done[k] = 0 /\ done'[k] = 1) =>
         /\ promise_retval[k].value = thist.returned[k]
         /\ thist.returned[k] # NoValue
         /\ co'[k] = "final_suspend"
    /\ \A th \in TThreads :
         (running[th] = k /\ co[k] = "final_suspend" /\ promise_next[k] # 0
            /\ (co'[k] # co[k] \/ running'[th] # k) /\ ~thist'.terminated) =>
           /\ running'[th] = promise_next[k]
           /\ co'[promise_next[k]] = "wait_resume"
           /\ thist'.resumed[promise_next[k]] = thist.resumed[promise_next[k]] + 1
           /\ thist.returned[k] # NoValue => done[k] = 1

C28_CompletionOrder == []C28_CompletionState /\ [][C28_CompletionStep]_vars

\* the continuation of a task that returned a value has been resumed on the
\* thread that completed the task
C28_Witness ==
  \E k \in Tasks : \E th \in TThreads :
    /\ k < NTask
    /\ co[k] = "wait_resume"
    /\ running[th] = k
    /\ thist.resumed[k] = 1
    /\ thist.returned[k + 1] # NoValue
    /\ done[k + 1] = 1

\* C29: the value_storage of an awaited dispatcher operation is written at
\* most once, by the worker that runs the unit and before it resumes the
\* coroutine, and read at most once, by await_resume after that resumption;
\* what is read is what was written.
C29_StorageState ==
  kind = "to_execute" =>
    \A u \in Units :
      /\ hist.called[u] <= 1
      /\ hist.resumed[u] <= hist.called[u]
      /\ (pc[W] = "w_resume" /\ task = u) =>
           /\ hist.called[u] = 1 /\ hist.resumed[u] = 0
           /\ get(retval[uframe[u]]) = hist.outcome

C29_StorageStep ==
  kind = "to_execute" =>
    /\ \A f \in Frames :
         (retval'[f] # retval[f] /\ retval'[f] # NewStorage) =>
           /\ pc[W] = "w_call" /\ pc'[W] = "w_resume"
           /\ f = uframe[task]
           /\ retval[f] = NewStorage
           /\ hist.called[task] = 0
    /\ \A u \in Units :
         hist'.resumed[u] # hist.resumed[u] =>
           /\ pc[W] = "w_resume" /\ task = u
           /\ (~aborted' => hist'.observed = hist.outcome)

C29_StorageOnce == []C29_StorageState /\ [][C29_StorageStep]_vars

\* the coroutine of a unit has read in await_resume the value the worker
\* stored, and has gone on to await a second operation
C29_Witness ==
  /\ kind = "to_execute"
  /\ \E u \in Units :
       /\ hist.called[u] = 1 /\ hist.resumed[u] = 1
       /\ hist.outcome.kind = "value"
       /\ hist.observed = hist.outcome
       /\ pc[W] = "push_load" /\ arg[W] > u /\ uframe[arg[W]] = uframe[u]

\* the worker is in drain(), or between its wake-up and the test that sends it
\* there
Draining ==
  \/ pc[W] \in {"d_empty", "d_cancel", "w_exit"}
  \/ pc[W] \in {"pop_load", "pop_check", "pop_cas", "pop_flag", "pop_move", "pop_ret"} /\ site = "drain"

\* C30: once stop is requested the worker's next wake-up takes it to drain(),
\* from where it invokes no unit, cancels the queued ones and exits; with the
\* signal of stop() released it gets there, so that join returns, unless the
\* unit call it is in never returns.
C30_NoCallStep ==
  /\ (pc[W] = "w_check" /\ stop_requested) => pc'[W] \in {"w_check", "d_empty"}
  /\ Draining => (Draining' /\ ~aborted')
  /\ \A u \in Units : Draining => hist'.called[u] = hist.called[u]

C30_ShutdownTerminates ==
  /\ [][C30_NoCallStep]_vars
  /\ \/ [](owner = "join" => <>(pc[W] = "w_exit" \/ aborted))
     \/ <>[](arg[W] # NoValue)

\* C31: in the producer/consumer harness no push happens once stop has been
\* requested: no try_push moves tail or publishes a slot, and !queue.empty()
\* changes from true to false only.
C31_NoPushStep ==
  stop_signal =>
    /\ tail' = tail
    /\ \A i \in Slots : flag'[i] = "not_empty" => flag[i] = "not_empty"
    /\ empty => empty'

C31_NoPushAfterStop == [][C31_NoPushStep]_vars

\* C32: try_push stores into a slot only after it has seen the slot's flag
\* empty and made it busy: a step that puts a payload into a slot is taken by
\* the thread that holds the slot busy, the slot holds no payload before it,
\* and the flag goes from empty to busy by a try_push that waits there only.
C32_StoreStep ==
  \A i \in Slots :
    /\ (data'[i] # data[i] /\ data'[i] # NoValue) =>
         /\ data[i] = NoValue
         /\ flag[i] = "busy"
         /\ \E t \in Threads : pc[t] = "push_store" /\ cur[t] = i /\ data'[i] = arg[t]
    /\ (flag'[i] = "busy" /\ flag[i] # "busy"
          /\ \E t \in Threads : pc[t] = "push_flag" /\ pc'[t] = "push_store" /\ cur[t] = i) =>
         flag[i] = "empty" /\ data[i] = NoValue

C32_StoredState ==
  \A t \in Threads : (pc[t] = "push_store") => (flag[cur[t]] = "busy" /\ data[cur[t]] = NoValue)

C32_NoOverwrite == []C32_StoredState /\ [][C32_StoreStep]_vars

\* a try_push that owns the index of a slot whose payload, accepted a lap
\* before, no try_pop has extracted yet: it waits for the flag
C32_Witness ==
  \E t \in Threads :
    /\ pc[t] = "push_flag"
    /\ flag[cur[t]] = "not_empty"
    /\ data[cur[t]] # NoValue
    /\ data[cur[t]] # arg[t]

\* C33: a try_push that returns false and a try_pop that returns nullopt have
\* changed nothing: they return from the test for full / empty, and every step
\* of a call up to its successful CAS on tail / head leaves head, tail and the
\* flag and data of every slot as they are.
C33_FailStep ==
  \A t \in Threads :
    /\ (pc[t] # "push_ret" /\ pc'[t] = "push_ret" /\ ret'[t] = PushFalse) =>
         (pc[t] = "push_check" /\ UNCHANGED qvars)
    /\ (pc[t] # "pop_ret" /\ pc'[t] = "pop_ret" /\ ret'[t] = NoValue) =>
         (pc[t] = "pop_check" /\ UNCHANGED qvars)
    /\ (pc[t] \in {"idle", "push_load", "push_check", "pop_load", "pop_check", "push_ret", "pop_ret"}
          /\ pc'[t] # pc[t]) => UNCHANGED qvars
    /\ (pc[t] = "push_cas" /\ pc'[t] = "push_check") => UNCHANGED qvars
    /\ (pc[t] = "push_cas" /\ pc'[t] # pc[t]) => pc'[t] \in {"push_check", "push_flag"}
    /\ (pc[t] = "pop_cas" /\ pc'[t] = "pop_check") => UNCHANGED qvars
    /\ (pc[t] = "pop_cas" /\ pc'[t] # pc[t]) => pc'[t] \in {"pop_check", "pop_flag"}
    /\ pc'[t] = "push_check" => pc[t] \in {"push_check", "push_load", "push_cas"}
    /\ pc'[t] = "pop_check" => pc[t] \in {"pop_check", "pop_load", "pop_cas"}

C33_FailedCallChangesNothing == [][C33_FailStep]_vars

\* a try_push has returned false and a try_pop nullopt while a call of another
\* thread is past its CAS on tail
C33_Witness ==
  \E t, s, r \in Threads :
    /\ pc[t] = "push_ret" /\ ret[t] = PushFalse
    /\ pc[s] = "pop_ret" /\ ret[s] = NoValue
    /\ pc[r] \in {"push_flag", "push_store"}

\* C34: a try_pop that the worker makes after acquiring a token, with no stop
\* requested at its test, returns a unit: the tokens released and not yet
\* acquired, the one of stop() aside, never exceed the units try_pop can
\* obtain.
C34_TokenHasUnit ==
  /\ (pc[W] = "pop_ret" /\ site = "run") => ret[W] # NoValue
  /\ (pc[W] = "pop_check" /\ site = "run") => cur[W] # tail

\* C35: once the worker has exited, every unit whose submit has returned was
\* invoked or cancelled: with no submit in progress no unit is stored in the
\* queue.
C35_NothingLeftBehind ==
  (pc[W] = "w_exit" /\ \A t \in Submitters : pc[t] = "idle") =>
    /\ \A i \in Slots : data[i] = NoValue
    /\ \A u \in 1..(nextVal - 1) : hist.called[u] + hist.cancelled[u] >= 1

\* C36: once sync_stream::stop() has been called, a reader inside read_sync,
\* blocked or about to block on the empty stream, or entering it afterwards,
\* eventually returns from read_sync.
C36_StopWakesReaders ==
  \A t \in SReaders :
    [](/\ stoped
       /\ spc[t] \in {"r_lock", "r_relock", "r_pred", "r_block", "r_waiting", "r_take"}
       => <>(spc[t] \in {"r_good", "r_empty", "r_loop", "done"}))

\* C37: the first sync_wait() on the launched task returns, whichever way the
\* bodies end, when every awaited operation is executed (the executor runs as
\* long as main waits).
C37_SyncWaitReturns ==
  [](mpc = "sync_wait" /\ thist.waits = 1 => <>(mpc = "waited" \/ thist.terminated))

\* C38: when the executor's drain has cancelled the unit of a task, every
\* coroutine that waits for that task through wait(), directly or through
\* other tasks, is eventually resumed or destroyed.
C38_WaitersSettled ==
  \A k \in Tasks :
    [](co[k] = "cancelled" => <>(\A j \in 1..(k - 1) : co[j] # "awaiting"))

\* the frame of task k is gone
Gone(k) == co[k] \in {"destroyed", "cancelled"}

\* C39, state part: no thread runs a destroyed frame, and a continuation that
\* is about to read the promise of the task it awaited finds that task
\* suspended at its final suspend point (in a process that has not ended).
C39_FrameState ==
  /\ \A th \in TThreads : running[th] # 0 => ~Gone(running[th])
  /\ \A k \in Tasks : (k < NTask /\ co[k] = "wait_resume" /\ ~thist.terminated) => co[k + 1] = "final"

\* C39, step part: a frame is destroyed once, at its own final suspend point
\* when no continuation is registered, or from that point by the await_resume
\* of the registered continuation; a destroyed frame stays so and its promise
\* is not written.
C39_FrameStep ==
  \A k \in Tasks :
    /\ (co'[k] = "destroyed" /\ co[k] # "destroyed") =>
         \/ /\ co[k] = "final_suspend" /\ promise_next[k] = 0
            /\ \E th \in TThreads : running[th] = k /\ running'[th] = 0
         \/ /\ co[k] = "final" /\ promise_next[k] = k - 1
            /\ co[k - 1] = "wait_resume"
            /\ \E th \in TThreads : running[th] = k - 1
    /\ Gone(k) =>
         /\ co'[k] = co[k]
         /\ promise_next'[k] = promise_next[k]
         /\ promise_retval'[k] = promise_retval[k]

====
